---- MODULE Spec2Model ----
(***************************************************************************)
(* Zone drawing, self-intersection guard and overlap check of the          *)
(* zones-mobile application (React Native).                                *)
(*                                                                         *)
(* Coordinates are integer lattice points <<lat, lng>>.  One lattice unit  *)
(* is 0.00075 degrees of latitude and 0.001 degrees of longitude; every    *)
(* geometric test of the program (orientation sign, bounding box, ray      *)
(* casting) is invariant under this positive scaling of the two axes.      *)
(***************************************************************************)
EXTENDS Integers, Sequences, FiniteSets, TLC

VARIABLES
    zones,              \* useZones: const [zones, setZones]
    loading,            \* useZones: const [loading, setLoading]
    stored,             \* AsyncStorage content under STORAGE_KEYS.ZONES
    loadPending,        \* loadZones is suspended at "await getItem"
    nextId,             \* number of ids handed out by Crypto.randomUUID
    drawingMode,        \* ZonesProvider: drawingMode
    drawingShape,       \* ZonesProvider: drawingShape
    redoStack,          \* ZonesProvider: redoStack
    showDetailsModal,   \* MapScreen: showDetailsModal
    selectedZone,       \* MapScreen: selectedZone
    showActionSheet,    \* MapScreen: showActionSheet
    showZoneListModal,  \* MapScreen: showZoneListModal
    confirmation,       \* MapScreen: confirmation
    toast,              \* MapScreen: toast
    previousZonesRef,   \* useZones: previousZonesRef.current
    storageOps,         \* AsyncStorage requests in flight, oldest first
    pendingUpdates,     \* ZonesProvider: state updates queued for the next render
    args,               \* arguments of the library function under check
    ret                 \* its result

vars == <<zones, loading, stored, loadPending, nextId, drawingMode, drawingShape,
          redoStack, showDetailsModal, selectedZone, showActionSheet,
          showZoneListModal, confirmation, toast, previousZonesRef, storageOps,
          pendingUpdates, args, ret>>

appVars == <<zones, loading, stored, loadPending, nextId, drawingMode, drawingShape,
             redoStack, showDetailsModal, selectedZone, showActionSheet,
             showZoneListModal, confirmation, toast, previousZonesRef, storageOps,
             pendingUpdates>>

-----------------------------------------------------------------------------
(* Bounds of the model.                                                    *)

\* Segment end points range over the lattice (0..SegMax) x (0..SegMax).
SegMax == 3

\* Rings handed to wouldIntersect have at most MaxGuardRing points, taken
\* from the lattice (0..GuardMax) x (0..1).
MaxGuardRing == 4

GuardMax == 2

\* Map taps fall on the lattice points <<lat, LngStep * k>> with lat in
\* 0..LatMax and k in 0..LngMax.
LatMax == 1

LngMax == 2

LngStep == 3

\* checkZoneOverlap scans lists of at most MaxScan existing zones.
MaxScan == 3

\* checkZoneOverlap is called with a candidate that may be missing on
\* lists of at most MaxCandidateScan zones.
MaxCandidateScan == 2

\* A polygon drawing holds at most MaxRing points, redo stack included.
MaxRing == 3

\* At most MaxCreated zones are created in one session.
MaxCreated == 1

\* Raw points handed to the point conversions have coordinates in
\* 0..PointMax.
PointMax == 4

\* Raw rings handed to the ring conversions have at most MaxPts points with
\* latitudes in 0..1 and longitudes in 0..RingLngMax, inside at most MaxWrap
\* singleton arrays.
MaxPts == 4

RingLngMax == 1

MaxWrap == 2

\* The zones handed to the metrics have rings of 3 to MaxMetricRing points
\* in (0..MetricMax) \X (0..MetricMax).
MetricMax == 2

MaxMetricRing == 4

\* The two area paths are compared on rectangles with latitudes up to
\* AreaLatMax and longitudes up to AreaLngMax.
AreaLatMax == 2

AreaLngMax == 5

\* At most MaxBatch undo and redo events are handled between two renders,
\* for polygons of at most MaxBatchRing points, redo stack included.
MaxBatch == 2

MaxBatchRing == 3

\* Polygons drawn with undo and redo have at most MaxDrawRing points, redo
\* stack included, on the lattice (0..DrawMax) \X (0..DrawMax).
MaxDrawRing == 4

DrawMax == 1

\* At most MaxInFlight AsyncStorage requests are in flight.
MaxInFlight == 2

\* The centers of the squares compared by checkZoneOverlap lie in
\* (0..SquareMax) \X (0..SquareMax).
SquareMax == 3

-----------------------------------------------------------------------------
(* src/utils/geometry.js                                                   *)

Max(a, b) == IF a >= b THEN a ELSE b

Min(a, b) == IF a <= b THEN a ELSE b

\* p[0] is p[1] here and p[1] is p[2] (sequences are 1-based).
direction(p1, p2, p3) ==
    (p3[2] - p1[2]) * (p2[1] - p1[1]) - (p2[2] - p1[2]) * (p3[1] - p1[1])

onSegment(p, q, r) ==
    /\ q[1] <= Max(p[1], r[1])
    /\ q[1] >= Min(p[1], r[1])
    /\ q[2] <= Max(p[2], r[2])
    /\ q[2] >= Min(p[2], r[2])

\* The bug this stands for: the collinear cases left out.
doLinesIntersect_general_only(p1, p2, p3, p4) ==
    LET d1 == direction(p3, p4, p1)
        d2 == direction(p3, p4, p2)
        d3 == direction(p1, p2, p3)
        d4 == direction(p1, p2, p4)
    IN  /\ ((d1 > 0 /\ d2 < 0) \/ (d1 < 0 /\ d2 > 0))
        /\ ((d3 > 0 /\ d4 < 0) \/ (d3 < 0 /\ d4 > 0))

doLinesIntersect(p1, p2, p3, p4) ==
    LET d1 == direction(p3, p4, p1)
        d2 == direction(p3, p4, p2)
        d3 == direction(p1, p2, p3)
        d4 == direction(p1, p2, p4)
    IN  IF /\ ((d1 > 0 /\ d2 < 0) \/ (d1 < 0 /\ d2 > 0))
           /\ ((d3 > 0 /\ d4 < 0) \/ (d3 < 0 /\ d4 > 0))
        THEN TRUE
        ELSE IF d1 = 0 /\ onSegment(p3, p1, p4) THEN TRUE
        ELSE IF d2 = 0 /\ onSegment(p3, p2, p4) THEN TRUE
        ELSE IF d3 = 0 /\ onSegment(p1, p3, p2) THEN TRUE
        ELSE IF d4 = 0 /\ onSegment(p1, p4, p2) THEN TRUE
        ELSE FALSE

\* The first loop of wouldIntersect, from loop index i (0-based, as in the
\* code); tested is the list of the edge indices compared so far.
RECURSIVE newLineLoop_noskip(_, _, _, _)
\* The bug this stands for: the edge being extended is not skipped.
newLineLoop_noskip(existingPoints, newPoint, i, tested) ==
    IF ~(i < Len(existingPoints) - 1)
    THEN [hit |-> FALSE, tested |-> tested]
    ELSE IF doLinesIntersect(existingPoints[Len(existingPoints)], newPoint,
                             existingPoints[i + 1], existingPoints[i + 2])
    THEN [hit |-> TRUE, tested |-> Append(tested, i)]
    ELSE newLineLoop_noskip(existingPoints, newPoint, i + 1, Append(tested, i))

RECURSIVE newLineLoop(_, _, _, _)
newLineLoop(existingPoints, newPoint, i, tested) ==
    IF ~(i < Len(existingPoints) - 1)
    THEN [hit |-> FALSE, tested |-> tested]
    ELSE IF i = Len(existingPoints) - 2
    THEN newLineLoop(existingPoints, newPoint, i + 1, tested)
    ELSE IF doLinesIntersect(existingPoints[Len(existingPoints)], newPoint,
                             existingPoints[i + 1], existingPoints[i + 2])
    THEN [hit |-> TRUE, tested |-> Append(tested, i)]
    ELSE newLineLoop(existingPoints, newPoint, i + 1, Append(tested, i))

RECURSIVE closingLoop_stop_early(_, _, _, _)
\* The bug this stands for: the loop bound one too small, so the last ring
\* edge is never compared with the closing line.
closingLoop_stop_early(existingPoints, newPoint, i, tested) ==
    IF ~(i < Len(existingPoints) - 2)
    THEN [hit |-> FALSE, tested |-> tested]
    ELSE IF doLinesIntersect(newPoint, existingPoints[1],
                             existingPoints[i + 1], existingPoints[i + 2])
    THEN [hit |-> TRUE, tested |-> Append(tested, i)]
    ELSE closingLoop_stop_early(existingPoints, newPoint, i + 1, Append(tested, i))

\* The second loop of wouldIntersect (closing line newPoint -> first point).
RECURSIVE closingLoop(_, _, _, _)
closingLoop(existingPoints, newPoint, i, tested) ==
    IF ~(i < Len(existingPoints) - 1)
    THEN [hit |-> FALSE, tested |-> tested]
    ELSE IF doLinesIntersect(newPoint, existingPoints[1],
                             existingPoints[i + 1], existingPoints[i + 2])
    THEN [hit |-> TRUE, tested |-> Append(tested, i)]
    ELSE closingLoop(existingPoints, newPoint, i + 1, Append(tested, i))

\* The bug this stands for: the early return answers true.
wouldIntersectRun_reject_short(existingPoints, newPoint) ==
    IF Len(existingPoints) < 2
    THEN [result |-> TRUE, newTested |-> <<>>, closeTested |-> <<>>]
    ELSE LET a == newLineLoop(existingPoints, newPoint, 0, <<>>)
         IN  IF a.hit
             THEN [result |-> TRUE, newTested |-> a.tested, closeTested |-> <<>>]
             ELSE LET c == closingLoop(existingPoints, newPoint, 1, <<>>)
                  IN  [result |-> c.hit, newTested |-> a.tested,
                       closeTested |-> c.tested]

\* One run of wouldIntersect: its result and the edges each loop compared.
wouldIntersectRun(existingPoints, newPoint) ==
    IF Len(existingPoints) < 2
    THEN [result |-> FALSE, newTested |-> <<>>, closeTested |-> <<>>]
    ELSE LET a == newLineLoop(existingPoints, newPoint, 0, <<>>)
         IN  IF a.hit
             THEN [result |-> TRUE, newTested |-> a.tested, closeTested |-> <<>>]
             ELSE LET c == IF Len(existingPoints) >= 2
                           THEN closingLoop(existingPoints, newPoint, 1, <<>>)
                           ELSE [hit |-> FALSE, tested |-> <<>>]
                  IN  [result |-> c.hit, newTested |-> a.tested,
                       closeTested |-> c.tested]

wouldIntersect(existingPoints, newPoint) ==
    wouldIntersectRun(existingPoints, newPoint).result

-----------------------------------------------------------------------------
(* Zone records and raw coordinate encodings.                              *)
(*                                                                         *)
(* zone.coordinates is [wrap, pts]: pts is the list of raw points and wrap *)
(* the number of singleton arrays wrapped around the list.  A raw point    *)
(* [k, lat, lng] is the array [lat, lng] (k = "arr"), the object           *)
(* {lat, lng} (k = "obj"), the object {latitude, longitude} (k = "geo"),   *)
(* an object with none of these fields (k = "bad"), an object with the     *)
(* field latitude or longitude only (k = "geoLat", "geoLng") or a number   *)
(* in the place of a point (k = "num").                                    *)

ArrPt(p) == [k |-> "arr", lat |-> p[1], lng |-> p[2]]

\* The JavaScript array of [lat, lng] arrays built from lattice points.
JsRing(points) == [wrap |-> 0, pts |-> [i \in DOMAIN points |-> ArrPt(points[i])]]

\* The lattice points of a list of raw points that are all arrays.
LatticeRing(pts) == [i \in DOMAIN pts |-> <<pts[i].lat, pts[i].lng>>]

-----------------------------------------------------------------------------
(* src/utils/zoneValidation.js and the Turf.js calls it makes.  Turf       *)
(* positions are <<lng, lat>>.                                             *)

GeoNull == [ok |-> FALSE, ring |-> <<>>]

Geo(ring) == [ok |-> TRUE, ring |-> ring]

\* turf.circle(center, radius, {steps}): the closed ring of the polygon
\* inscribed in the circle.  The lattice keeps the vertices at the multiples
\* of 30 degrees; CircleOffsets are their <<lng, lat>> offsets for a radius
\* of CircleRadiusM metres (3.87 lattice units of longitude, 3.6 of
\* latitude, rounded).
CircleRadiusM == 300

CircleOffsets ==
    << <<0, 4>>, <<2, 3>>, <<3, 2>>, <<4, 0>>, <<3, -2>>, <<2, -3>>,
       <<0, -4>>, <<-2, -3>>, <<-3, -2>>, <<-4, 0>>, <<-3, 2>>, <<-2, 3>>,
       <<0, 4>> >>

turfCircle(turfCenter, radius) ==
    Geo([i \in DOMAIN CircleOffsets |->
            <<turfCenter[1] + (CircleOffsets[i][1] * radius) \div CircleRadiusM,
              turfCenter[2] + (CircleOffsets[i][2] * radius) \div CircleRadiusM>>])

\* turf.polygon([ring]) throws for a ring of fewer than 4 positions; the
\* caller's try/catch turns the throw into null.
turfPolygon(ring) == IF Len(ring) < 4 THEN GeoNull ELSE Geo(ring)

\* The unwrap loop "while (Array.isArray(coords[0]) && Array.isArray(
\* coords[0][0]) && coords.length === 1) coords = coords[0]" reaches the list
\* of points iff nothing is wrapped around it or its first point is an array.
UnwrapReachesPoints(coordinates) ==
    \/ coordinates.wrap = 0
    \/ coordinates.pts # <<>> /\ coordinates.pts[1].k = "arr"

\* The callback of coords.map in the polygon branch: the Turf position of
\* a raw point, or null (no position).
polygonTurfPoint(point) ==
    IF point.k = "arr" THEN <<<<point.lng, point.lat>>>>
    ELSE IF point.k = "obj" THEN <<<<point.lng, point.lat>>>>
    ELSE <<>>

\* coords.map(...).filter(p => p !== null) of the polygon branch.
RECURSIVE polygonTurfCoords(_)
polygonTurfCoords(pts) ==
    IF pts = <<>> THEN <<>>
    ELSE polygonTurfPoint(Head(pts)) \o polygonTurfCoords(Tail(pts))

\* The circle branch reads its center: turfCenter = [lng, lat], or null.
circleTurfCenter(center) ==
    IF center.k = "arr" THEN <<<<center.lng, center.lat>>>>
    ELSE IF center.k = "obj" THEN <<<<center.lng, center.lat>>>>
    ELSE <<>>

\* The bug this stands for: the first position is pushed without the test.
closeRing_always(turfCoords) == Append(turfCoords, turfCoords[1])

\* "if (first[0] !== last[0] || first[1] !== last[1]) turfCoords.push([...first])"
closeRing(turfCoords) ==
    IF turfCoords[1] # turfCoords[Len(turfCoords)]
    THEN Append(turfCoords, turfCoords[1])
    ELSE turfCoords

SeqMin(f) == CHOOSE x \in {f[i] : i \in DOMAIN f} : \A i \in DOMAIN f : x <= f[i]

SeqMax(f) == CHOOSE x \in {f[i] : i \in DOMAIN f} : \A i \in DOMAIN f : x >= f[i]

zoneToTurfGeometry(zone) ==
    IF zone.type = "circle"
    THEN IF zone.coordinates.wrap # 0 \/ zone.coordinates.pts = <<>>
         THEN GeoNull
         ELSE LET turfCenter == circleTurfCenter(zone.coordinates.pts[1])
              IN  IF turfCenter # <<>>
                  THEN turfCircle(turfCenter[1], zone.radius)
                  ELSE GeoNull
    ELSE IF zone.type = "polygon"
    THEN IF ~UnwrapReachesPoints(zone.coordinates)
         THEN GeoNull
         ELSE LET turfCoords == polygonTurfCoords(zone.coordinates.pts)
              IN  IF turfCoords = <<>> THEN GeoNull
                  ELSE turfPolygon(closeRing(turfCoords))
    ELSE IF zone.type = "rectangle"
    THEN IF ~UnwrapReachesPoints(zone.coordinates)
         THEN GeoNull
         ELSE LET points == SelectSeq(zone.coordinates.pts,
                                      LAMBDA q : q.k \in {"arr", "obj"})
                  lats == [i \in DOMAIN points |-> points[i].lat]
                  lngs == [i \in DOMAIN points |-> points[i].lng]
              IN  IF points = <<>> THEN Geo(<<>>)
                  ELSE turfPolygon(<< <<SeqMin(lngs), SeqMin(lats)>>,
                                      <<SeqMax(lngs), SeqMin(lats)>>,
                                      <<SeqMax(lngs), SeqMax(lats)>>,
                                      <<SeqMin(lngs), SeqMax(lats)>>,
                                      <<SeqMin(lngs), SeqMin(lats)>> >>)
    ELSE GeoNull

\* A point intersection of two segments as turf.lineIntersect reports it:
\* the supporting lines are not parallel and meet inside both segments.
turfLineIntersect(a1, a2, b1, b2) ==
    LET den == (a2[1] - a1[1]) * (b2[2] - b1[2]) - (a2[2] - a1[2]) * (b2[1] - b1[1])
        tn  == (b1[1] - a1[1]) * (b2[2] - b1[2]) - (b1[2] - a1[2]) * (b2[1] - b1[1])
        un  == (b1[1] - a1[1]) * (a2[2] - a1[2]) - (b1[2] - a1[2]) * (a2[1] - a1[1])
    IN  IF den > 0 THEN 0 <= tn /\ tn <= den /\ 0 <= un /\ un <= den
        ELSE IF den < 0 THEN den <= tn /\ tn <= 0 /\ den <= un /\ un <= 0
        ELSE FALSE

EdgesOf(ring) == 1..(Len(ring) - 1)

\* Some edge of ring1 has a point intersection with some edge of ring2.
ringsLineIntersect(ring1, ring2) ==
    \E i \in EdgesOf(ring1) : \E j \in EdgesOf(ring2) :
        turfLineIntersect(ring1[i], ring1[i + 1], ring2[j], ring2[j + 1])

\* pt lies on the edge from a to b (the onBoundary test of point-in-ring).
onBoundary(pt, a, b) ==
    /\ pt[2] * (a[1] - b[1]) + a[2] * (b[1] - pt[1]) + b[2] * (pt[1] - a[1]) = 0
    /\ (a[1] - pt[1]) * (b[1] - pt[1]) <= 0
    /\ (a[2] - pt[2]) * (b[2] - pt[2]) <= 0

\* The ray from pt in the direction of growing x crosses the edge a-b:
\* "yi > y !== yj > y && x < (xj - xi) * (y - yi) / (yj - yi) + xi".
rayCrosses(pt, a, b) ==
    /\ (a[2] > pt[2]) # (b[2] > pt[2])
    /\ IF b[2] - a[2] > 0
       THEN (pt[1] - a[1]) * (b[2] - a[2]) < (b[1] - a[1]) * (pt[2] - a[2])
       ELSE (pt[1] - a[1]) * (b[2] - a[2]) > (b[1] - a[1]) * (pt[2] - a[2])

\* turf.booleanPointInPolygon(pt, polygon) with the boundary counted in.
turfBooleanPointInPolygon(pt, ring) ==
    \/ \E i \in EdgesOf(ring) : onBoundary(pt, ring[i], ring[i + 1])
    \/ Cardinality({i \in EdgesOf(ring) : rayCrosses(pt, ring[i], ring[i + 1])}) % 2 = 1

\* turf.booleanIntersects = not booleanDisjoint: a vertex of one polygon in
\* the other, or two edges that meet.
turfBooleanIntersects(g1, g2) ==
    \/ \E i \in DOMAIN g1.ring : turfBooleanPointInPolygon(g1.ring[i], g2.ring)
    \/ \E j \in DOMAIN g2.ring : turfBooleanPointInPolygon(g2.ring[j], g1.ring)
    \/ ringsLineIntersect(g1.ring, g2.ring)

\* turf.booleanOverlap of two polygons: they are not equal and two of their
\* edges meet.
turfBooleanOverlap(g1, g2) ==
    /\ g1.ring # g2.ring
    /\ ringsLineIntersect(g1.ring, g2.ring)

RECURSIVE scanLoop_abort(_, _, _, _)
\* The bug this stands for: "return" written for "continue", so the first
\* zone that cannot be converted ends the scan.
scanLoop_abort(newGeometry, existingZones, throwing, overlappingZones) ==
    IF existingZones = <<>> THEN overlappingZones
    ELSE LET existingZone == Head(existingZones)
             existingGeometry == zoneToTurfGeometry(existingZone)
         IN  IF ~existingGeometry.ok
             THEN overlappingZones
             ELSE IF existingZone.id \in throwing
             THEN scanLoop_abort(newGeometry, Tail(existingZones), throwing,
                                 overlappingZones)
             ELSE IF \/ turfBooleanIntersects(newGeometry, existingGeometry)
                     \/ turfBooleanOverlap(newGeometry, existingGeometry)
             THEN scanLoop_abort(newGeometry, Tail(existingZones), throwing,
                                 Append(overlappingZones, existingZone))
             ELSE scanLoop_abort(newGeometry, Tail(existingZones), throwing,
                                 overlappingZones)

RECURSIVE scanLoop_overlap_only(_, _, _, _)
\* The bug this stands for: "if (overlaps)" written for "if (overlaps ||
\* intersects)".
scanLoop_overlap_only(newGeometry, existingZones, throwing, overlappingZones) ==
    IF existingZones = <<>> THEN overlappingZones
    ELSE LET existingZone == Head(existingZones)
             existingGeometry == zoneToTurfGeometry(existingZone)
         IN  IF ~existingGeometry.ok
             THEN scanLoop_overlap_only(newGeometry, Tail(existingZones), throwing,
                                        overlappingZones)
             ELSE IF existingZone.id \in throwing
             THEN scanLoop_overlap_only(newGeometry, Tail(existingZones), throwing,
                                        overlappingZones)
             ELSE IF turfBooleanOverlap(newGeometry, existingGeometry)
             THEN scanLoop_overlap_only(newGeometry, Tail(existingZones), throwing,
                                        Append(overlappingZones, existingZone))
             ELSE scanLoop_overlap_only(newGeometry, Tail(existingZones), throwing,
                                        overlappingZones)

\* "for (const existingZone of existingZones)": throwing is the set of the
\* ids of the zones on which a Turf comparison throws (caught by the loop's
\* try/catch).
RECURSIVE scanLoop(_, _, _, _)
scanLoop(newGeometry, existingZones, throwing, overlappingZones) ==
    IF existingZones = <<>> THEN overlappingZones
    ELSE LET existingZone == Head(existingZones)
             existingGeometry == zoneToTurfGeometry(existingZone)
         IN  IF ~existingGeometry.ok
             THEN scanLoop(newGeometry, Tail(existingZones), throwing,
                           overlappingZones)
             ELSE IF existingZone.id \in throwing
             THEN scanLoop(newGeometry, Tail(existingZones), throwing,
                           overlappingZones)
             ELSE IF \/ turfBooleanIntersects(newGeometry, existingGeometry)
                     \/ turfBooleanOverlap(newGeometry, existingGeometry)
             THEN scanLoop(newGeometry, Tail(existingZones), throwing,
                           Append(overlappingZones, existingZone))
             ELSE scanLoop(newGeometry, Tail(existingZones), throwing,
                           overlappingZones)

\* The bug this stands for: a candidate that cannot be converted is
\* reported as overlapping all the zones.
checkZoneOverlapRun_fail_closed(newZone, existingZones, throwing) ==
    IF Len(existingZones) = 0
    THEN [hasOverlap |-> FALSE, overlappingZones |-> <<>>]
    ELSE LET newGeometry == zoneToTurfGeometry(newZone)
         IN  IF ~newGeometry.ok
             THEN [hasOverlap |-> TRUE, overlappingZones |-> existingZones]
             ELSE LET overlappingZones ==
                          scanLoop(newGeometry, existingZones, throwing, <<>>)
                  IN  [hasOverlap |-> Len(overlappingZones) > 0,
                       overlappingZones |-> overlappingZones]

checkZoneOverlapRun(newZone, existingZones, throwing) ==
    IF Len(existingZones) = 0
    THEN [hasOverlap |-> FALSE, overlappingZones |-> <<>>]
    ELSE LET newGeometry == zoneToTurfGeometry(newZone)
         IN  IF ~newGeometry.ok
             THEN [hasOverlap |-> FALSE, overlappingZones |-> <<>>]
             ELSE LET overlappingZones ==
                          scanLoop(newGeometry, existingZones, throwing, <<>>)
                  IN  [hasOverlap |-> Len(overlappingZones) > 0,
                       overlappingZones |-> overlappingZones]

checkZoneOverlap(newZone, existingZones) ==
    checkZoneOverlapRun(newZone, existingZones, {})

\* checkZoneOverlap called with arguments that may be null or undefined:
\* <<>> is a missing argument, <<x>> the argument x.
checkZoneOverlapCall(newZone, existingZones, throwing) ==
    IF newZone = <<>> \/ existingZones = <<>>
    THEN [hasOverlap |-> FALSE, overlappingZones |-> <<>>]
    ELSE checkZoneOverlapRun(newZone[1], existingZones[1], throwing)

-----------------------------------------------------------------------------
(* components/ZoneLayer.js: the coordinates handed to the map.  A number   *)
(* that may be undefined is the empty sequence or a sequence of one        *)
(* number.                                                                 *)

\* point.lat, point.lng, point.latitude, point.longitude of a raw point that
\* is not an array.
fieldOf(point, name) ==
    IF point.k = "obj" /\ name = "lat" THEN <<point.lat>>
    ELSE IF point.k = "obj" /\ name = "lng" THEN <<point.lng>>
    ELSE IF point.k \in {"geo", "geoLat"} /\ name = "latitude" THEN <<point.lat>>
    ELSE IF point.k \in {"geo", "geoLng"} /\ name = "longitude" THEN <<point.lng>>
    ELSE <<>>

\* a || b on numbers: undefined and 0 are falsy.
JsOr(a, b) == IF a # <<>> /\ a[1] # 0 THEN a ELSE b

LatLng(latitude, longitude) ==
    [latitude |-> latitude, longitude |-> longitude]

\* The circle's center prop.
layerCenter(center) ==
    IF center.k = "arr" THEN LatLng(<<center.lat>>, <<center.lng>>)
    ELSE LatLng(JsOr(fieldOf(center, "lat"), fieldOf(center, "latitude")),
                JsOr(fieldOf(center, "lng"), fieldOf(center, "longitude")))

\* The bug this stands for: the array branch reads [lng, lat].
layerPoint_swapped(point) ==
    IF point.k \in {"obj", "geo", "geoLat", "geoLng", "bad"}
    THEN <<LatLng(JsOr(fieldOf(point, "lng"), fieldOf(point, "longitude")),
                  JsOr(fieldOf(point, "lat"), fieldOf(point, "latitude")))>>
    ELSE IF point.k = "arr" THEN <<LatLng(<<point.lng>>, <<point.lat>>)>>
    ELSE <<>>

\* The callback of coords.map: {latitude, longitude}, or null (no point).
layerPoint(point) ==
    IF point.k \in {"obj", "geo", "geoLat", "geoLng", "bad"}
    THEN <<LatLng(JsOr(fieldOf(point, "lat"), fieldOf(point, "latitude")),
                  JsOr(fieldOf(point, "lng"), fieldOf(point, "longitude")))>>
    ELSE IF point.k = "arr" THEN <<LatLng(<<point.lat>>, <<point.lng>>)>>
    ELSE <<>>

RECURSIVE layerPoints(_)
layerPoints(pts) ==
    IF pts = <<>> THEN <<>>
    ELSE layerPoint(Head(pts)) \o layerPoints(Tail(pts))

\* The coordinates prop of the Polygon of a polygon or rectangle zone; the
\* empty list when nothing is rendered.  The unwrap loop "while (Array.
\* isArray(coords) && coords.length === 1 && Array.isArray(coords[0]))" also
\* unwraps a ring of one array point into its two numbers.
layerCoordinates(zone) ==
    LET pts == zone.coordinates.pts
    IN  IF Len(pts) = 1 /\ pts[1].k = "arr"
        THEN <<>>
        ELSE layerPoints(pts)

-----------------------------------------------------------------------------
(* utils/zoneCalculations.js.  The results are kept exact: an area is the  *)
(* record of the quantities the floating-point formula is computed from.   *)

NullArea == [kind |-> "null", twice |-> 0, latNum |-> 0, latDen |-> 1, r |-> 0]

NullCenter == [kind |-> "null", latNum |-> 0, lngNum |-> 0, den |-> 1]

Abs(x) == IF x < 0 THEN -x ELSE x

RECURSIVE SumSeq(_)
SumSeq(f) == IF f = <<>> THEN 0 ELSE Head(f) + SumSeq(Tail(f))

\* The bug this stands for: the loop stops before the closing edge
\* ("i < coords.length - 1").
shoelaceSum_open(c) ==
    SumSeq([i \in 1..(Len(c) - 1) |->
               c[i][2] * c[i + 1][1] - c[i + 1][2] * c[i][1]])

\* The sum of lng_i * lat_j - lng_j * lat_i over the ring, j = (i + 1) % n.
shoelaceSum(c) ==
    SumSeq([i \in DOMAIN c |->
               LET j == (i % Len(c)) + 1
               IN  c[i][2] * c[j][1] - c[j][2] * c[i][1]])

\* kind "circle": PI * r * r.  kind "planar": (twice / 2) square degrees,
\* times 111000 * 111000 * cos(latNum / latDen degrees).
calculateZoneArea(zone) ==
    IF zone.type = "circle" /\ zone.radius # 0
    THEN [kind |-> "circle", twice |-> 0, latNum |-> 0, latDen |-> 1,
          r |-> zone.radius]
    ELSE IF zone.type = "rectangle"
    THEN LET c == LatticeRing(zone.coordinates.pts)
             lats == [i \in 1..4 |-> c[i][1]]
             lngs == [i \in 1..4 |-> c[i][2]]
             lat1 == SeqMin(lats)
             lat2 == SeqMax(lats)
             lng1 == SeqMin(lngs)
             lng2 == SeqMax(lngs)
         IN  [kind |-> "planar",
              twice |-> 2 * Abs(lat2 - lat1) * Abs(lng2 - lng1),
              latNum |-> lat1 + lat2, latDen |-> 2, r |-> 0]
    ELSE IF zone.type = "polygon"
    THEN LET c == LatticeRing(zone.coordinates.pts)
         IN  [kind |-> "planar", twice |-> Abs(shoelaceSum(c)),
              latNum |-> SumSeq([i \in DOMAIN c |-> c[i][1]]),
              latDen |-> Len(c), r |-> 0]
    ELSE NullArea

\* The doubles the formulas return.  A positive double is m * 2^e with
\* 2^52 <= m < 2^53; m is kept as its digits in base 1024, lowest first (a
\* natural number of TLC stops at 2^31).  Zero has no digits.
Zero == [m |-> <<>>, e |-> 0]

\* The digits of limbs * n + carry, for 0 < n < 2^21.
RECURSIVE mulLimbs(_, _, _)
mulLimbs(limbs, n, carry) ==
    IF limbs = <<>>
    THEN IF carry = 0 THEN <<>>
         ELSE <<carry % 1024>> \o mulLimbs(<<>>, n, carry \div 1024)
    ELSE LET x == Head(limbs) * n + carry
         IN  <<x % 1024>> \o mulLimbs(Tail(limbs), n, x \div 1024)

RECURSIVE addOne(_)
addOne(limbs) ==
    IF limbs = <<>> THEN <<1>>
    ELSE IF Head(limbs) < 1023 THEN <<Head(limbs) + 1>> \o Tail(limbs)
    ELSE <<0>> \o addOne(Tail(limbs))

\* limbs - 1, for limbs that are not a power of 1024.
RECURSIVE subOne(_)
subOne(limbs) ==
    IF Head(limbs) > 0 THEN <<Head(limbs) - 1>> \o Tail(limbs)
    ELSE <<1023>> \o subOne(Tail(limbs))

\* The number of binary digits of limbs.
bitLength(limbs) ==
    IF limbs = <<>> THEN 0
    ELSE 10 * (Len(limbs) - 1)
         + (CHOOSE k \in 1..10 : 2^(k - 1) <= limbs[Len(limbs)]
                                  /\ limbs[Len(limbs)] < 2^k)

limbAt(limbs, i) == IF i \in DOMAIN limbs THEN limbs[i] ELSE 0

bitAt(limbs, i) == (limbAt(limbs, (i \div 10) + 1) \div 2^(i % 10)) % 2

\* limbs \div 2^d.
shiftRight(limbs, d) ==
    LET q == d \div 10
        r == d % 10
        n == (bitLength(limbs) - d + 9) \div 10
    IN  [j \in 1..n |-> (limbAt(limbs, q + j) \div 2^r)
                          + (limbAt(limbs, q + j + 1) % 2^r) * 2^(10 - r)]

\* The double nearest to limbs * 2^e, ties to the even mantissa, for limbs
\* of 53 binary digits or more: the rounding of every arithmetic operation
\* on doubles.
roundToDouble(limbs, e) ==
    LET d == bitLength(limbs) - 53
        kept == shiftRight(limbs, d)
        up == /\ d > 0
              /\ bitAt(limbs, d - 1) = 1
              /\ \/ \E i \in 0..(d - 2) : bitAt(limbs, i) = 1
                 \/ bitAt(limbs, d) = 1
        rounded == IF up THEN addOne(kept) ELSE kept
    IN  IF bitLength(rounded) = 54
        THEN [m |-> shiftRight(rounded, 1), e |-> e + d + 1]
        ELSE [m |-> rounded, e |-> e + d]

\* n * x in doubles, for an integer 0 <= n < 2^21 and a double x.
timesDouble(n, x) ==
    IF n = 0 \/ x = Zero THEN Zero
    ELSE roundToDouble(mulLimbs(x.m, n, 0), x.e)

\* The mantissas of the cosines of 1/4, 2/4, ..., 16/4 degrees, rounded to
\* the nearest double; all are in [1/2, 1).
CosMantissas ==
    <<
       <<78, 14, 150, 944, 1023, 7>>,  \* cos 0.25 deg = 0x1.fffec0960384ep-1
       <<461, 626, 601, 704, 1023, 7>>,  \* cos 0.5 deg = 0x1.fffb02599c9cdp-1
       <<540, 475, 335, 305, 1023, 7>>,  \* cos 0.75 deg = 0x1.fff4c54f76e1cp-1
       <<906, 363, 383, 770, 1022, 7>>,  \* cos 1 deg = 0x1.ffec097f5af8ap-1
       <<117, 186, 756, 51, 1022, 7>>,  \* cos 1.25 deg = 0x1.ffe0cef42e875p-1
       <<629, 976, 443, 197, 1021, 7>>,  \* cos 1.5 deg = 0x1.ffd315bbf4275p-1
       <<324, 813, 487, 183, 1020, 7>>,  \* cos 1.75 deg = 0x1.ffc2dde7cb544p-1
       <<359, 961, 907, 9, 1019, 7>>,  \* cos 2 deg = 0x1.ffb0278bf0567p-1
       <<663, 752, 703, 700, 1017, 7>>,  \* cos 2.25 deg = 0x1.ff9af2bfbc297p-1
       <<503, 657, 925, 207, 1016, 7>>,  \* cos 2.5 deg = 0x1.ff833f9da45f7p-1
       <<1018, 235, 579, 579, 1014, 7>>,  \* cos 2.75 deg = 0x1.ff690e433affap-1
       <<541, 185, 721, 791, 1012, 7>>,  \* cos 3 deg = 0x1.ff4c5ed12e61dp-1
       <<86, 292, 363, 844, 1010, 7>>,  \* cos 3.25 deg = 0x1.ff2d316b49056p-1
       <<586, 453, 568, 737, 1008, 7>>,  \* cos 3.5 deg = 0x1.ff0b86387164ap-1
       <<70, 679, 354, 471, 1006, 7>>,  \* cos 3.75 deg = 0x1.fee75d62a9c46p-1
       <<1014, 63, 791, 45, 1004, 7>>   \* cos 4 deg = 0x1.fec0b7170fff6p-1
    >>

\* Math.cos((avgLat * Math.PI) / 180) for avgLat = quarters / 4 degrees.
\* ECMAScript leaves the last digit of Math.cos to the implementation:
\* ulp in {-1, 0, 1} is its distance from the nearest double.  The cosine
\* of 0 is 1 in every implementation.
MathCos(quarters, ulp) ==
    IF quarters = 0 THEN [m |-> <<0, 0, 0, 0, 0, 4>>, e |-> -52]
    ELSE [m |-> IF ulp = 1 THEN addOne(CosMantissas[quarters])
                ELSE IF ulp = -1 THEN subOne(CosMantissas[quarters])
                ELSE CosMantissas[quarters],
          e |-> -53]

\* The bug this stands for: "area = Math.abs(area)" without the halving.
polygonAreaM2_unhalved(twice, cosine) ==
    timesDouble(twice * 111000, timesDouble(111000, cosine))

\* "area * metersPerDegreeLat * metersPerDegreeLng" with area = twice / 2:
\* area * 111000 is an integer, computed without rounding.
polygonAreaM2(twice, cosine) ==
    timesDouble((twice * 111000) \div 2, timesDouble(111000, cosine))

\* "heightM * widthM" with heightM = latDiff * 111000 and
\* widthM = lngDiff * 111000 * Math.cos(...).
rectangleAreaM2(latDiff, lngDiff, cosine) ==
    timesDouble(latDiff * 111000, timesDouble(lngDiff * 111000, cosine))

\* The double calculateZoneArea returns for a rectangle or a polygon of
\* four lattice points: the degree-squared area and the average latitude
\* are exact in doubles, the products with 111000 and the cosine are
\* rounded.
calculateZoneAreaM2(zone, ulp) ==
    LET area == calculateZoneArea(zone)
        cosine == MathCos((4 * area.latNum) \div area.latDen, ulp)
        c == LatticeRing(zone.coordinates.pts)
        lats == [i \in 1..4 |-> c[i][1]]
        lngs == [i \in 1..4 |-> c[i][2]]
    IN  IF zone.type = "rectangle"
        THEN rectangleAreaM2(Abs(SeqMax(lats) - SeqMin(lats)),
                             Abs(SeqMax(lngs) - SeqMin(lngs)), cosine)
        ELSE polygonAreaM2(area.twice, cosine)

\* The bug this stands for: the center of the bounding box is returned for
\* the mean of the vertices.
calculateZoneCenter_bbox(zone) ==
    IF zone.type = "circle"
    THEN [kind |-> "point", latNum |-> zone.coordinates.pts[1].lat,
          lngNum |-> zone.coordinates.pts[1].lng, den |-> 1]
    ELSE IF zone.type = "rectangle" \/ zone.type = "polygon"
    THEN LET c == LatticeRing(zone.coordinates.pts)
             lats == [i \in DOMAIN c |-> c[i][1]]
             lngs == [i \in DOMAIN c |-> c[i][2]]
         IN  [kind |-> "point",
              latNum |-> SeqMin(lats) + SeqMax(lats),
              lngNum |-> SeqMin(lngs) + SeqMax(lngs),
              den |-> 2]
    ELSE NullCenter

\* The center {lat, lng} is <<latNum / den, lngNum / den>>.
calculateZoneCenter(zone) ==
    IF zone.type = "circle"
    THEN [kind |-> "point", latNum |-> zone.coordinates.pts[1].lat,
          lngNum |-> zone.coordinates.pts[1].lng, den |-> 1]
    ELSE IF zone.type = "rectangle" \/ zone.type = "polygon"
    THEN LET c == LatticeRing(zone.coordinates.pts)
         IN  [kind |-> "point",
              latNum |-> SumSeq([i \in DOMAIN c |-> c[i][1]]),
              lngNum |-> SumSeq([i \in DOMAIN c |-> c[i][2]]),
              den |-> Len(c)]
    ELSE NullCenter

-----------------------------------------------------------------------------
(* hooks/useZones.js: the zone record addZone builds.  colorHex is a       *)
(* function of color and createdAt is never read; both are left out.       *)

\* The bug this stands for: addZone stores the zone without its metrics.
newZoneRecord_no_metrics(id, zoneData) ==
    [id |-> id, name |-> zoneData.name, color |-> zoneData.color,
     type |-> zoneData.type, coordinates |-> zoneData.coordinates,
     radius |-> zoneData.radius,
     area |-> NullArea,
     center |-> NullCenter]

newZoneRecord(id, zoneData) ==
    [id |-> id, name |-> zoneData.name, color |-> zoneData.color,
     type |-> zoneData.type, coordinates |-> zoneData.coordinates,
     radius |-> zoneData.radius,
     area |-> calculateZoneArea(zoneData),
     center |-> calculateZoneCenter(zoneData)]

\* utils/storage.js and the save effect of useZones.  JSON.stringify leaves
\* out a property that is undefined: a zone without radius (radius 0 here)
\* is written without it.
JSONstringify(value) ==
    [i \in DOMAIN value |->
        IF value[i].radius = 0
        THEN [f \in DOMAIN value[i] \ {"radius"} |-> value[i][f]]
        ELSE value[i]]

JSONparse(jsonValue) ==
    [i \in DOMAIN jsonValue |->
        IF "radius" \in DOMAIN jsonValue[i]
        THEN jsonValue[i]
        ELSE [f \in DOMAIN jsonValue[i] \cup {"radius"} |->
                 IF f = "radius" THEN 0 ELSE jsonValue[i][f]]]

\* A request handed to AsyncStorage.  The native module serves its requests
\* one at a time, in the order they were made.
GetItem == [op |-> "getItem", jsonValue |-> <<>>, value |-> <<>>]

\* setItem(key, value): the text is made when the request is, value is what
\* saveZones assigns to previousZonesRef.current once the request is served.
SetItem(value) ==
    [op |-> "setItem", jsonValue |-> JSONstringify(value), value |-> value]

\* The bug this stands for: the effect does not return while loading.
saveEffect_while_loading(zonesNow, loadingNow, previous, ops) ==
    IF JSONstringify(previous) = JSONstringify(zonesNow) THEN ops
    ELSE Append(ops, SetItem(zonesNow))

\* The save effect, run after a render in which zones or loading changed:
\* the requests in flight after it.
saveEffect(zonesNow, loadingNow, previous, ops) ==
    IF loadingNow THEN ops
    ELSE IF JSONstringify(previous) = JSONstringify(zonesNow) THEN ops
    ELSE Append(ops, SetItem(zonesNow))

\* "latOffset = 0.0015" and "lngOffset = 0.002", in lattice units.
RectLatOffset == 2

RectLngOffset == 2

rectangleCoords(latitude, longitude) ==
    << <<latitude + RectLatOffset, longitude - RectLngOffset>>,
       <<latitude + RectLatOffset, longitude + RectLngOffset>>,
       <<latitude - RectLatOffset, longitude + RectLngOffset>>,
       <<latitude - RectLatOffset, longitude - RectLngOffset>> >>

-----------------------------------------------------------------------------
(* The application: context/ZonesContext.js, hooks/useZones.js and the     *)
(* MapScreen component.  An option value (null or an object) is the empty  *)
(* sequence or a sequence of one element, except drawingShape, which       *)
(* carries a flag.  A handler runs in a render that has seen all earlier  *)
(* state updates, except undoLastPoint, redoLastPoint and Render, which    *)
(* queue the updates of several events for one render.                     *)

NotCalled == [done |-> FALSE, value |-> FALSE]

NoShape == [null |-> TRUE, coordinates |-> <<>>, radius |-> 0]

\* {coordinates, radius}; radius 0 stands for an absent radius.
Shape(coordinates, radius) ==
    [null |-> FALSE, coordinates |-> coordinates, radius |-> radius]

\* The updates queued on the drawingShape and redoStack hooks since the
\* last render, oldest first.
NoUpdates == [drawingShape |-> <<>>, redoStack |-> <<>>]

NoConfirmation == [visible |-> FALSE, onConfirm |-> "null", captured |-> <<>>]

NoToast == [visible |-> FALSE, message |-> "", type |-> "success"]

Toast(message, type) == [visible |-> TRUE, message |-> message, type |-> type]

TapLats == 0..LatMax

TapLngs == {LngStep * k : k \in 0..LngMax}

\* The names and colors entered in the details modal; "" is an empty name.
Names == {"A"}

Colors == {"blue", "red"}

\* The zone lists found in storage at start-up; no two zones of a list
\* overlap.
StoredRect ==
    newZoneRecord(101, [name |-> "A", color |-> "blue", type |-> "polygon",
                        coordinates |-> JsRing(rectangleCoords(0, 0)),
                        radius |-> 0])

StoredCircle ==
    newZoneRecord(102, [name |-> "A", color |-> "red", type |-> "circle",
                        coordinates |-> JsRing(<<<<1, 9>>>>),
                        radius |-> CircleRadiusM])

StoredLists == {<<StoredRect>>, <<StoredRect, StoredCircle>>}

\* No modal covers the map and the toolbar.
NoModal ==
    /\ ~showDetailsModal
    /\ ~(showActionSheet /\ selectedZone # <<>>)
    /\ ~showZoneListModal
    /\ ~confirmation.visible

hasDrawing == ~drawingShape.null

canUndo == drawingMode = "polygon" /\ hasDrawing /\ Len(drawingShape.coordinates) > 0

canRedo == drawingMode = "polygon" /\ Len(redoStack) > 0

Init ==
    /\ zones = <<>>
    /\ loading = TRUE
    /\ stored \in {<<>>} \cup {<<list>> : list \in StoredLists}
    /\ loadPending = TRUE
    /\ nextId = 1
    /\ drawingMode = "null"
    /\ drawingShape = NoShape
    /\ redoStack = <<>>
    /\ showDetailsModal = FALSE
    /\ selectedZone = <<>>
    /\ showActionSheet = FALSE
    /\ showZoneListModal = FALSE
    /\ confirmation = NoConfirmation
    /\ toast = NoToast
    /\ previousZonesRef = <<>>
    /\ storageOps = <<GetItem>>
    /\ pendingUpdates = NoUpdates
    /\ args = [fn |-> "none"]
    /\ ret = NotCalled

\* loadZones resumes after "await getItem": a stored array replaces zones
\* and previousZonesRef.current, loading becomes false, and the save effect
\* runs after the render.
LoadZonesDone ==
    /\ loadPending
    /\ storageOps # <<>>
    /\ Head(storageOps).op = "getItem"
    /\ zones' = IF stored # <<>> THEN stored[1] ELSE zones
    /\ previousZonesRef' = IF stored # <<>> THEN stored[1] ELSE previousZonesRef
    /\ loading' = FALSE
    /\ loadPending' = FALSE
    /\ storageOps' = saveEffect(zones', FALSE, previousZonesRef', Tail(storageOps))
    /\ UNCHANGED <<stored, nextId, drawingMode, drawingShape, redoStack,
                   showDetailsModal, selectedZone, showActionSheet,
                   showZoneListModal, confirmation, toast, pendingUpdates, args, ret>>

\* saveZones resumes after "await setItem": the text is in storage and
\* previousZonesRef.current is the list the effect saw.  Nothing is rendered.
SaveZonesDone ==
    /\ storageOps # <<>>
    /\ Head(storageOps).op = "setItem"
    /\ stored' = <<JSONparse(Head(storageOps).jsonValue)>>
    /\ previousZonesRef' = Head(storageOps).value
    /\ storageOps' = Tail(storageOps)
    /\ UNCHANGED <<zones, loading, loadPending, nextId, drawingMode, drawingShape,
                   redoStack, showDetailsModal, selectedZone, showActionSheet,
                   showZoneListModal, confirmation, toast, pendingUpdates, args, ret>>

\* handleModeSelect: clearDrawing when the mode is tapped again, else
\* startDrawing(mode).
handleModeSelect(mode) ==
    /\ NoModal
    /\ drawingMode = mode \/ nextId <= MaxCreated
    /\ drawingMode' = IF drawingMode = mode THEN "null" ELSE mode
    /\ drawingShape' = NoShape
    /\ redoStack' = <<>>
    /\ UNCHANGED <<zones, loading, stored, loadPending, nextId, showDetailsModal,
                   selectedZone, showActionSheet, showZoneListModal, confirmation,
                   toast, args, ret,
                   previousZonesRef, storageOps, pendingUpdates>>

\* The bug this stands for: the rejected point is appended all the same
\* (the "return" after the toast is missing).
polygonPress_no_return(latitude, longitude) ==
    LET newPoint == <<latitude, longitude>>
    IN  IF drawingShape.null
        THEN [shape |-> Shape(<<newPoint>>, 0), toast |-> toast]
        ELSE IF wouldIntersect(drawingShape.coordinates, newPoint)
        THEN [shape |-> Shape(Append(drawingShape.coordinates, newPoint), 0),
              toast |-> Toast("Invalid point - would create crossing lines", "error")]
        ELSE [shape |-> Shape(Append(drawingShape.coordinates, newPoint), 0),
              toast |-> toast]

\* The polygon branch of handleMapPress: the new drawingShape and toast.
polygonPress(latitude, longitude) ==
    LET newPoint == <<latitude, longitude>>
    IN  IF drawingShape.null
        THEN [shape |-> Shape(<<newPoint>>, 0), toast |-> toast]
        ELSE IF wouldIntersect(drawingShape.coordinates, newPoint)
        THEN [shape |-> drawingShape,
              toast |-> Toast("Invalid point - would create crossing lines", "error")]
        ELSE [shape |-> Shape(Append(drawingShape.coordinates, newPoint), 0),
              toast |-> toast]

\* The tap would be turned down by the self-intersection guard.
PressRejected(latitude, longitude) ==
    /\ drawingMode = "polygon"
    /\ ~drawingShape.null
    /\ wouldIntersect(drawingShape.coordinates, <<latitude, longitude>>)

\* A tap that adds a point finds fewer than bound points in the ring and
\* the redo stack together.
RingRoom(bound, latitude, longitude) ==
    drawingMode = "polygon" =>
        \/ Len(drawingShape.coordinates) + Len(redoStack) < bound
        \/ PressRejected(latitude, longitude)

handleMapPress(latitude, longitude) ==
    /\ NoModal
    /\ drawingMode # "null"
    /\ IF drawingMode = "circle"
       THEN /\ drawingShape' = Shape(<<<<latitude, longitude>>>>, CircleRadiusM)
            /\ toast' = toast
       ELSE IF drawingMode = "rectangle"
       THEN /\ drawingShape' = Shape(rectangleCoords(latitude, longitude), 0)
            /\ toast' = toast
       ELSE /\ drawingShape' = polygonPress(latitude, longitude).shape
            /\ toast' = polygonPress(latitude, longitude).toast
    /\ UNCHANGED <<zones, loading, stored, loadPending, nextId, drawingMode,
                   redoStack, showDetailsModal, selectedZone, showActionSheet,
                   showZoneListModal, confirmation, args, ret,
                   previousZonesRef, storageOps, pendingUpdates>>

\* The zone handed to checkZoneOverlap by handleComplete.
tempZone ==
    [id |-> 0, name |-> "", color |-> "",
     type |-> IF drawingMode = "rectangle" THEN "polygon" ELSE drawingMode,
     coordinates |-> JsRing(drawingShape.coordinates),
     radius |-> drawingShape.radius,
     area |-> NullArea, center |-> NullCenter]

\* The bug this stands for: the overlap result is reported but completion
\* goes on (the "return" after the toast is missing).
completeOutcome_ignore_overlap ==
    IF drawingShape.null
    THEN [modal |-> showDetailsModal, toast |-> Toast("No shape to save", "error")]
    ELSE IF drawingMode = "polygon" /\ Len(drawingShape.coordinates) < 3
    THEN [modal |-> showDetailsModal,
          toast |-> Toast("Polygon needs at least 3 points", "error")]
    ELSE IF checkZoneOverlap(tempZone, zones).hasOverlap
    THEN [modal |-> TRUE, toast |-> Toast("Cannot save - overlaps", "error")]
    ELSE [modal |-> TRUE, toast |-> toast]

\* The bug this stands for: the vertex count test compares with 2.
completeOutcome_two_points ==
    IF drawingShape.null
    THEN [modal |-> showDetailsModal, toast |-> Toast("No shape to save", "error")]
    ELSE IF drawingMode = "polygon" /\ Len(drawingShape.coordinates) < 2
    THEN [modal |-> showDetailsModal,
          toast |-> Toast("Polygon needs at least 3 points", "error")]
    ELSE IF checkZoneOverlap(tempZone, zones).hasOverlap
    THEN [modal |-> showDetailsModal, toast |-> Toast("Cannot save - overlaps", "error")]
    ELSE [modal |-> TRUE, toast |-> toast]

\* handleComplete: the new showDetailsModal and toast.
completeOutcome ==
    IF drawingShape.null
    THEN [modal |-> showDetailsModal, toast |-> Toast("No shape to save", "error")]
    ELSE IF drawingMode = "polygon" /\ Len(drawingShape.coordinates) < 3
    THEN [modal |-> showDetailsModal,
          toast |-> Toast("Polygon needs at least 3 points", "error")]
    ELSE IF checkZoneOverlap(tempZone, zones).hasOverlap
    THEN [modal |-> showDetailsModal, toast |-> Toast("Cannot save - overlaps", "error")]
    ELSE [modal |-> TRUE, toast |-> toast]

handleComplete ==
    /\ NoModal
    /\ hasDrawing
    /\ showDetailsModal' = completeOutcome.modal
    /\ toast' = completeOutcome.toast
    /\ UNCHANGED <<zones, loading, stored, loadPending, nextId, drawingMode,
                   drawingShape, redoStack, selectedZone, showActionSheet,
                   showZoneListModal, confirmation, args, ret,
                   previousZonesRef, storageOps, pendingUpdates>>

handleClear ==
    /\ NoModal
    /\ hasDrawing
    /\ drawingMode' = "null"
    /\ drawingShape' = NoShape
    /\ redoStack' = <<>>
    /\ UNCHANGED <<zones, loading, stored, loadPending, nextId, showDetailsModal,
                   selectedZone, showActionSheet, showZoneListModal, confirmation,
                   toast, args, ret,
                   previousZonesRef, storageOps, pendingUpdates>>

\* The updater undoLastPoint hands to setDrawingShape, with the
\* setRedoStack call it makes: the drawingShape and redoStack it leaves.
undoUpdate(prev, stack) ==
    IF prev.null \/ Len(prev.coordinates) = 0
    THEN [drawingShape |-> NoShape, redoStack |-> stack]
    ELSE [drawingShape |->
              IF Len(prev.coordinates) = 1 THEN NoShape
              ELSE Shape(SubSeq(prev.coordinates, 1, Len(prev.coordinates) - 1), 0),
          redoStack |-> Append(stack, prev.coordinates[Len(prev.coordinates)])]

\* The bug this stands for: the restored point stays on the redo stack.
redoUpdate_keep_stack(prev, stack, pointToRestore) ==
    [drawingShape |->
         IF prev.null THEN Shape(<<pointToRestore>>, 0)
         ELSE Shape(Append(prev.coordinates, pointToRestore), 0),
     redoStack |-> stack]

\* The two updaters redoLastPoint queues, for the point it read from the
\* redo stack of its render: "stack.slice(0, -1)" and the append.
redoUpdate(prev, stack, pointToRestore) ==
    [drawingShape |->
         IF prev.null THEN Shape(<<pointToRestore>>, 0)
         ELSE Shape(Append(prev.coordinates, pointToRestore), 0),
     redoStack |-> SubSeq(stack, 1, Len(stack) - 1)]

\* undoLastPoint, reached through the toolbar's undo button, and the render
\* that follows.
handleUndoLastPoint ==
    /\ NoModal
    /\ canUndo
    /\ redoStack' = undoUpdate(drawingShape, redoStack).redoStack
    /\ drawingShape' = undoUpdate(drawingShape, redoStack).drawingShape
    /\ UNCHANGED <<zones, loading, stored, loadPending, nextId, drawingMode,
                   showDetailsModal, selectedZone, showActionSheet,
                   showZoneListModal, confirmation, toast, args, ret,
                   previousZonesRef, storageOps, pendingUpdates>>

\* redoLastPoint, reached through the toolbar's redo button, which is shown
\* only while there is a drawing, and the render that follows.
handleRedoLastPoint ==
    /\ NoModal
    /\ hasDrawing
    /\ canRedo
    /\ redoStack' = redoUpdate(drawingShape, redoStack,
                               redoStack[Len(redoStack)]).redoStack
    /\ drawingShape' = redoUpdate(drawingShape, redoStack,
                                  redoStack[Len(redoStack)]).drawingShape
    /\ UNCHANGED <<zones, loading, stored, loadPending, nextId, drawingMode,
                   showDetailsModal, selectedZone, showActionSheet,
                   showZoneListModal, confirmation, toast, args, ret,
                   previousZonesRef, storageOps, pendingUpdates>>

\* An update queued on a hook: setDrawingShape(value) is "set", the updater
\* of undoLastPoint is "undo" and that of redoLastPoint "append";
\* setRedoStack is called with the updaters "push" and "slice".
Update(fn, value, point) == [fn |-> fn, value |-> value, point |-> point]

\* The queue of the drawingShape hook applied to prev at a render: the new
\* drawingShape and the setRedoStack calls the "undo" updaters made.
RECURSIVE reduceDrawingShape(_, _, _)
reduceDrawingShape(queue, prev, pushed) ==
    IF queue = <<>> THEN [drawingShape |-> prev, pushed |-> pushed]
    ELSE LET update == Head(queue)
         IN  IF update.fn = "set"
             THEN reduceDrawingShape(Tail(queue), update.value, pushed)
             ELSE IF update.fn = "undo"
             THEN LET undone == undoUpdate(prev, <<>>)
                  IN  reduceDrawingShape(Tail(queue), undone.drawingShape,
                          pushed \o [i \in DOMAIN undone.redoStack |->
                                        Update("push", NoShape, undone.redoStack[i])])
             ELSE reduceDrawingShape(Tail(queue),
                      redoUpdate(prev, <<>>, update.point).drawingShape, pushed)

\* The queue of the redoStack hook applied to stack at a render.
RECURSIVE reduceRedoStack(_, _)
reduceRedoStack(queue, stack) ==
    IF queue = <<>> THEN stack
    ELSE LET update == Head(queue)
         IN  IF update.fn = "push"
             THEN reduceRedoStack(Tail(queue), Append(stack, update.point))
             ELSE reduceRedoStack(Tail(queue),
                      redoUpdate(NoShape, stack, update.point).redoStack)

\* undoLastPoint called from the undo button of the last render, no render
\* yet.  React runs the updater at once when the component has no update
\* queued, and at the next render otherwise.
undoLastPoint ==
    /\ NoModal
    /\ canUndo
    /\ Len(pendingUpdates.drawingShape) < MaxBatch
    /\ pendingUpdates' =
          IF pendingUpdates = NoUpdates
          THEN LET undone == undoUpdate(drawingShape, <<>>)
               IN  [drawingShape |-> <<Update("set", undone.drawingShape, <<>>)>>,
                    redoStack |-> [i \in DOMAIN undone.redoStack |->
                                      Update("push", NoShape, undone.redoStack[i])]]
          ELSE [pendingUpdates EXCEPT
                   !.drawingShape = Append(@, Update("undo", NoShape, <<>>))]
    /\ UNCHANGED <<zones, loading, stored, loadPending, nextId, drawingMode,
                   drawingShape, redoStack, showDetailsModal, selectedZone,
                   showActionSheet, showZoneListModal, confirmation, toast, args,
                   ret, previousZonesRef, storageOps>>

\* redoLastPoint called from the redo button of the last render, no render
\* yet: redoStack is the stack of that render.
redoLastPoint ==
    /\ NoModal
    /\ hasDrawing
    /\ canRedo
    /\ Len(pendingUpdates.drawingShape) < MaxBatch
    /\ pendingUpdates' =
          [drawingShape |-> Append(pendingUpdates.drawingShape,
                                   Update("append", NoShape, redoStack[Len(redoStack)])),
           redoStack |-> Append(pendingUpdates.redoStack,
                                Update("slice", NoShape, <<>>))]
    /\ UNCHANGED <<zones, loading, stored, loadPending, nextId, drawingMode,
                   drawingShape, redoStack, showDetailsModal, selectedZone,
                   showActionSheet, showZoneListModal, confirmation, toast, args,
                   ret, previousZonesRef, storageOps>>

\* ZonesProvider renders: the drawingShape hook works off its queue, then
\* the redoStack hook its own, with the calls made by the "undo" updaters
\* at its end.
Render ==
    /\ pendingUpdates # NoUpdates
    /\ LET reduced == reduceDrawingShape(pendingUpdates.drawingShape,
                                         drawingShape, <<>>)
       IN  /\ drawingShape' = reduced.drawingShape
           /\ redoStack' = reduceRedoStack(pendingUpdates.redoStack \o reduced.pushed,
                                           redoStack)
    /\ pendingUpdates' = NoUpdates
    /\ UNCHANGED <<zones, loading, stored, loadPending, nextId, drawingMode,
                   showDetailsModal, selectedZone, showActionSheet,
                   showZoneListModal, confirmation, toast, args, ret,
                   previousZonesRef, storageOps>>

\* The bug this stands for: the vertex count test is missing from
\* completeDrawing.
completeDrawingRun_no_count(options) ==
    IF drawingShape.null
    THEN [created |-> <<>>, zones |-> zones, nextId |-> nextId,
          drawingMode |-> drawingMode, drawingShape |-> drawingShape,
          redoStack |-> redoStack]
    ELSE LET createdZone ==
                 newZoneRecord(nextId,
                     [name |-> IF options.name # "" THEN options.name ELSE "default",
                      color |-> IF options.color # "" THEN options.color ELSE "blue",
                      type |-> IF drawingMode = "rectangle" THEN "polygon"
                               ELSE drawingMode,
                      coordinates |-> JsRing(drawingShape.coordinates),
                      radius |-> IF drawingMode = "circle" THEN drawingShape.radius
                                 ELSE 0])
         IN  [created |-> <<createdZone>>, zones |-> Append(zones, createdZone),
              nextId |-> nextId + 1, drawingMode |-> "null",
              drawingShape |-> NoShape, redoStack |-> <<>>]

\* The bug this stands for: the zone is stored with type drawingMode, so a
\* rectangle is stored as 'rectangle'.
completeDrawingRun_keep_rectangle(options) ==
    IF drawingShape.null
    THEN [created |-> <<>>, zones |-> zones, nextId |-> nextId,
          drawingMode |-> drawingMode, drawingShape |-> drawingShape,
          redoStack |-> redoStack]
    ELSE IF drawingMode = "polygon" /\ Len(drawingShape.coordinates) < 3
    THEN [created |-> <<>>, zones |-> zones, nextId |-> nextId,
          drawingMode |-> drawingMode, drawingShape |-> drawingShape,
          redoStack |-> redoStack]
    ELSE LET createdZone ==
                 newZoneRecord(nextId,
                     [name |-> IF options.name # "" THEN options.name ELSE "default",
                      color |-> IF options.color # "" THEN options.color ELSE "blue",
                      type |-> drawingMode,
                      coordinates |-> JsRing(drawingShape.coordinates),
                      radius |-> IF drawingMode = "circle" THEN drawingShape.radius
                                 ELSE 0])
         IN  [created |-> <<createdZone>>, zones |-> Append(zones, createdZone),
              nextId |-> nextId + 1, drawingMode |-> "null",
              drawingShape |-> NoShape, redoStack |-> <<>>]

\* The bug this stands for: clearDrawing is not called after addZone.
completeDrawingRun_no_clear(options) ==
    IF drawingShape.null
    THEN [created |-> <<>>, zones |-> zones, nextId |-> nextId,
          drawingMode |-> drawingMode, drawingShape |-> drawingShape,
          redoStack |-> redoStack]
    ELSE IF drawingMode = "polygon" /\ Len(drawingShape.coordinates) < 3
    THEN [created |-> <<>>, zones |-> zones, nextId |-> nextId,
          drawingMode |-> drawingMode, drawingShape |-> drawingShape,
          redoStack |-> redoStack]
    ELSE LET createdZone ==
                 newZoneRecord(nextId,
                     [name |-> IF options.name # "" THEN options.name ELSE "default",
                      color |-> IF options.color # "" THEN options.color ELSE "blue",
                      type |-> IF drawingMode = "rectangle" THEN "polygon"
                               ELSE drawingMode,
                      coordinates |-> JsRing(drawingShape.coordinates),
                      radius |-> IF drawingMode = "circle" THEN drawingShape.radius
                                 ELSE 0])
         IN  [created |-> <<createdZone>>, zones |-> Append(zones, createdZone),
              nextId |-> nextId + 1, drawingMode |-> drawingMode,
              drawingShape |-> drawingShape, redoStack |-> redoStack]

\* completeDrawing(options): the zone it returns (none for null) and the
\* state it leaves (addZone, then clearDrawing).
completeDrawingRun(options) ==
    IF drawingShape.null
    THEN [created |-> <<>>, zones |-> zones, nextId |-> nextId,
          drawingMode |-> drawingMode, drawingShape |-> drawingShape,
          redoStack |-> redoStack]
    ELSE IF drawingMode = "polygon" /\ Len(drawingShape.coordinates) < 3
    THEN [created |-> <<>>, zones |-> zones, nextId |-> nextId,
          drawingMode |-> drawingMode, drawingShape |-> drawingShape,
          redoStack |-> redoStack]
    ELSE LET createdZone ==
                 newZoneRecord(nextId,
                     [name |-> IF options.name # "" THEN options.name ELSE "default",
                      color |-> IF options.color # "" THEN options.color ELSE "blue",
                      type |-> IF drawingMode = "rectangle" THEN "polygon"
                               ELSE drawingMode,
                      coordinates |-> JsRing(drawingShape.coordinates),
                      radius |-> IF drawingMode = "circle" THEN drawingShape.radius
                                 ELSE 0])
         IN  [created |-> <<createdZone>>, zones |-> Append(zones, createdZone),
              nextId |-> nextId + 1, drawingMode |-> "null",
              drawingShape |-> NoShape, redoStack |-> <<>>]

\* updateZone(id, updates): "{ ...zone, ...updates }" for the zone of that
\* id.
updateZone(id, updates) ==
    [i \in DOMAIN zones |->
        IF zones[i].id = id
        THEN [f \in DOMAIN zones[i] |->
                 IF f \in DOMAIN updates THEN updates[f] ELSE zones[i][f]]
        ELSE zones[i]]

\* The bug this stands for: the first zone of the list is removed, whatever
\* the id.
deleteZone_first(id) == IF zones = <<>> THEN zones ELSE Tail(zones)

\* deleteZone(id)
deleteZone(id) == SelectSeq(zones, LAMBDA zone : zone.id # id)

\* The details modal's confirm button: onError for an empty name, else
\* handleConfirmDetails({name, color}).
handleConfirmDetails(name, color) ==
    /\ showDetailsModal
    /\ IF name = ""
       THEN /\ toast' = Toast("Please enter a zone name", "error")
            /\ showDetailsModal' = FALSE
            /\ selectedZone' = <<>>
            /\ UNCHANGED <<zones, nextId, drawingMode, drawingShape, redoStack,
                           storageOps>>
       ELSE IF selectedZone # <<>>
       THEN /\ zones' = updateZone(selectedZone[1].id, [name |-> name, color |-> color])
            /\ storageOps' = saveEffect(zones', loading, previousZonesRef, storageOps)
            /\ showDetailsModal' = FALSE
            /\ selectedZone' = <<>>
            /\ toast' = Toast("Zone updated", "success")
            /\ UNCHANGED <<nextId, drawingMode, drawingShape, redoStack>>
       ELSE LET run == completeDrawingRun([name |-> name, color |-> color])
            IN  /\ zones' = run.zones
                /\ nextId' = run.nextId
                /\ drawingMode' = run.drawingMode
                /\ drawingShape' = run.drawingShape
                /\ redoStack' = run.redoStack
                /\ showDetailsModal' = FALSE
                /\ selectedZone' = selectedZone
                /\ toast' = IF run.created # <<>>
                            THEN Toast("Zone created", "success") ELSE toast
                /\ storageOps' =
                      IF run.created # <<>>
                      THEN saveEffect(run.zones, loading, previousZonesRef, storageOps)
                      ELSE storageOps
    /\ Len(storageOps') <= MaxInFlight
    /\ UNCHANGED <<loading, stored, loadPending, previousZonesRef, showActionSheet,
                   showZoneListModal, confirmation, pendingUpdates, args, ret>>

\* The details modal's cancel button.
cancelDetails ==
    /\ showDetailsModal
    /\ showDetailsModal' = FALSE
    /\ selectedZone' = <<>>
    /\ UNCHANGED <<zones, loading, stored, loadPending, nextId, drawingMode,
                   drawingShape, redoStack, showActionSheet, showZoneListModal,
                   confirmation, toast, args, ret,
                   previousZonesRef, storageOps, pendingUpdates>>

handleZonePress(zone) ==
    /\ NoModal
    /\ drawingMode = "null"
    /\ selectedZone' = <<zone>>
    /\ showActionSheet' = TRUE
    /\ UNCHANGED <<zones, loading, stored, loadPending, nextId, drawingMode,
                   drawingShape, redoStack, showDetailsModal, showZoneListModal,
                   confirmation, toast, args, ret,
                   previousZonesRef, storageOps, pendingUpdates>>

\* The action sheet is the top-most modal.
SheetOnTop ==
    /\ showActionSheet
    /\ selectedZone # <<>>
    /\ ~confirmation.visible
    /\ ~showDetailsModal

handleEditZone ==
    /\ SheetOnTop
    /\ showActionSheet' = FALSE
    /\ showDetailsModal' = TRUE
    /\ UNCHANGED <<zones, loading, stored, loadPending, nextId, drawingMode,
                   drawingShape, redoStack, selectedZone, showZoneListModal,
                   confirmation, toast, args, ret,
                   previousZonesRef, storageOps, pendingUpdates>>

handleDeleteZone ==
    /\ SheetOnTop
    /\ confirmation' = [visible |-> TRUE, onConfirm |-> "deleteZone",
                        captured |-> selectedZone]
    /\ UNCHANGED <<zones, loading, stored, loadPending, nextId, drawingMode,
                   drawingShape, redoStack, showDetailsModal, selectedZone,
                   showActionSheet, showZoneListModal, toast, args, ret,
                   previousZonesRef, storageOps, pendingUpdates>>

handleCloseActionSheet ==
    /\ SheetOnTop
    /\ showActionSheet' = FALSE
    /\ selectedZone' = <<>>
    /\ UNCHANGED <<zones, loading, stored, loadPending, nextId, drawingMode,
                   drawingShape, redoStack, showDetailsModal, showZoneListModal,
                   confirmation, toast, args, ret,
                   previousZonesRef, storageOps, pendingUpdates>>

handleOpenZoneList ==
    /\ NoModal
    /\ showZoneListModal' = TRUE
    /\ UNCHANGED <<zones, loading, stored, loadPending, nextId, drawingMode,
                   drawingShape, redoStack, showDetailsModal, selectedZone,
                   showActionSheet, confirmation, toast, args, ret,
                   previousZonesRef, storageOps, pendingUpdates>>

\* handleZoneSelectFromList and the list's close button: the list closes
\* (zoomToZone only moves the camera).
closeZoneList ==
    /\ showZoneListModal
    /\ showZoneListModal' = FALSE
    /\ UNCHANGED <<zones, loading, stored, loadPending, nextId, drawingMode,
                   drawingShape, redoStack, showDetailsModal, selectedZone,
                   showActionSheet, confirmation, toast, args, ret,
                   previousZonesRef, storageOps, pendingUpdates>>

\* handleDeleteAllFromList: the list closes and handleDeleteAll asks for
\* confirmation unless there are no zones.
handleDeleteAllFromList ==
    /\ showZoneListModal
    /\ showZoneListModal' = FALSE
    /\ confirmation' =
          IF Len(zones) = 0 THEN confirmation
          ELSE [visible |-> TRUE, onConfirm |-> "clearZones", captured |-> <<>>]
    /\ UNCHANGED <<zones, loading, stored, loadPending, nextId, drawingMode,
                   drawingShape, redoStack, showDetailsModal, selectedZone,
                   showActionSheet, toast, args, ret,
                   previousZonesRef, storageOps, pendingUpdates>>

\* The confirmation modal's Delete button runs confirmation.onConfirm.
confirmConfirmation ==
    /\ confirmation.visible
    /\ IF confirmation.onConfirm = "clearZones"
       THEN /\ zones' = <<>>
            /\ toast' = Toast("zones deleted", "success")
            /\ UNCHANGED <<showActionSheet, selectedZone>>
       ELSE /\ zones' = deleteZone(confirmation.captured[1].id)
            /\ showActionSheet' = FALSE
            /\ selectedZone' = <<>>
            /\ toast' = Toast("Zone deleted", "success")
    /\ confirmation' = NoConfirmation
    /\ storageOps' = saveEffect(zones', loading, previousZonesRef, storageOps)
    /\ Len(storageOps') <= MaxInFlight
    /\ UNCHANGED <<loading, stored, loadPending, nextId, drawingMode,
                   drawingShape, redoStack, showDetailsModal, showZoneListModal,
                   previousZonesRef, pendingUpdates, args, ret>>

\* The confirmation modal's Cancel button: hideConfirmation.
cancelConfirmation ==
    /\ confirmation.visible
    /\ confirmation' = NoConfirmation
    /\ UNCHANGED <<zones, loading, stored, loadPending, nextId, drawingMode,
                   drawingShape, redoStack, showDetailsModal, selectedZone,
                   showActionSheet, showZoneListModal, toast, args, ret,
                   previousZonesRef, storageOps, pendingUpdates>>

\* The toast's timer runs out: hideToast.
hideToast ==
    /\ toast.visible
    /\ toast' = NoToast
    /\ UNCHANGED <<zones, loading, stored, loadPending, nextId, drawingMode,
                   drawingShape, redoStack, showDetailsModal, selectedZone,
                   showActionSheet, showZoneListModal, confirmation, args, ret,
                   previousZonesRef, storageOps, pendingUpdates>>

\* No write is waiting to be served.
WritesServed == \A i \in DOMAIN storageOps : storageOps[i].op # "setItem"

\* The whole application, with storage faster than the user: a write is
\* served before the next event is handled.
Next ==
    \/ LoadZonesDone
    \/ SaveZonesDone
    \/ WritesServed /\ \E mode \in {"circle", "rectangle", "polygon"} :
                          handleModeSelect(mode)
    \/ WritesServed /\ \E latitude \in TapLats : \E longitude \in TapLngs :
                          /\ RingRoom(MaxRing, latitude, longitude)
                          /\ handleMapPress(latitude, longitude)
    \/ WritesServed /\ handleComplete
    \/ WritesServed /\ handleClear
    \/ WritesServed /\ handleUndoLastPoint
    \/ WritesServed /\ handleRedoLastPoint
    \/ WritesServed /\ \E name \in Names \cup {""} : \E color \in Colors :
                          handleConfirmDetails(name, color)
    \/ WritesServed /\ cancelDetails
    \/ WritesServed /\ \E i \in DOMAIN zones : handleZonePress(zones[i])
    \/ WritesServed /\ handleEditZone
    \/ WritesServed /\ handleDeleteZone
    \/ WritesServed /\ handleCloseActionSheet
    \/ WritesServed /\ handleOpenZoneList
    \/ WritesServed /\ closeZoneList
    \/ WritesServed /\ handleDeleteAllFromList
    \/ WritesServed /\ confirmConfirmation
    \/ WritesServed /\ cancelConfirmation
    \/ WritesServed /\ hideToast

Spec == Init /\ [][Next]_vars

\* The zone list and its storage, with writes served at any time: circles
\* are drawn at one place, zones are edited and deleted, and nothing is
\* cancelled.
SaveTapLat == 0

SaveTapLng == LngStep * LngMax

InitSave ==
    /\ Init
    /\ stored \in {<<>>, <<<<StoredRect>>>>}

NextSave ==
    \/ LoadZonesDone
    \/ SaveZonesDone
    \/ handleModeSelect("circle")
    \/ handleMapPress(SaveTapLat, SaveTapLng)
    \/ handleComplete
    \/ \E name \in Names : \E color \in Colors : handleConfirmDetails(name, color)
    \/ \E i \in DOMAIN zones : handleZonePress(zones[i])
    \/ handleEditZone
    \/ handleDeleteZone
    \/ handleOpenZoneList
    \/ handleDeleteAllFromList
    \/ confirmConfirmation

SpecSave == InitSave /\ [][NextSave]_vars

\* AsyncStorage settles every request it was handed.
SpecSaveFair ==
    /\ SpecSave
    /\ WF_vars(LoadZonesDone)
    /\ WF_vars(SaveZonesDone)

\* Polygon drawing by map taps alone: the mode button and the map.
NextTap ==
    \/ handleModeSelect("polygon")
    \/ \E latitude \in TapLats : \E longitude \in TapLngs :
          /\ RingRoom(MaxRing, latitude, longitude)
          /\ handleMapPress(latitude, longitude)

SpecTap == Init /\ [][NextTap]_vars

\* Polygon drawing with undo and redo, every event handled in a render that
\* has seen the events before it: taps fall on the lattice points
\* <<lat, lng>> with lat and lng in 0..DrawMax, and ring and redo stack hold
\* at most MaxDrawRing points together.
InitDraw ==
    /\ Init
    /\ stored = <<>>

NextDraw ==
    \/ handleModeSelect("polygon")
    \/ \E latitude \in 0..DrawMax : \E longitude \in 0..DrawMax :
          /\ RingRoom(MaxDrawRing, latitude, longitude)
          /\ handleMapPress(latitude, longitude)
    \/ handleUndoLastPoint
    \/ handleRedoLastPoint

SpecDraw == InitDraw /\ [][NextDraw]_vars

\* Polygon drawing in which undo and redo events may be handled before the
\* component renders again; mode button and map taps are handled in a
\* fresh render.
NextBatch ==
    \/ pendingUpdates = NoUpdates /\ handleModeSelect("polygon")
    \/ pendingUpdates = NoUpdates /\
          \E latitude \in 0..DrawMax : \E longitude \in 0..DrawMax :
             /\ RingRoom(MaxBatchRing, latitude, longitude)
             /\ handleMapPress(latitude, longitude)
    \/ undoLastPoint
    \/ Len(drawingShape.coordinates) + Len(pendingUpdates.drawingShape) < MaxBatchRing
          /\ redoLastPoint
    \/ Render

SpecBatch == InitDraw /\ [][NextBatch]_vars

-----------------------------------------------------------------------------
(* Reference geometry, used only to state properties.                      *)

Cross(u, v) == u[1] * v[2] - u[2] * v[1]

Dot(u, v) == u[1] * v[1] + u[2] * v[2]

Vec(a, b) == <<b[1] - a[1], b[2] - a[2]>>

\* P = A + s (B - A) for a real s in [0, 1].
PointOnSegment(P, A, B) ==
    IF A = B THEN P = A
    ELSE /\ Cross(Vec(A, B), Vec(A, P)) = 0
         /\ 0 <= Dot(Vec(A, P), Vec(A, B))
         /\ Dot(Vec(A, P), Vec(A, B)) <= Dot(Vec(A, B), Vec(A, B))

\* The closed segments a1-a2 and b1-b2 have a common point: a1 + t (a2 - a1)
\* = b1 + u (b2 - b1) for real t, u in [0, 1].  For non-parallel segments
\* t = tn / den and u = un / den; parallel segments meet iff an end point of
\* one lies on the other.
SegmentsSharePoint(a1, a2, b1, b2) ==
    LET den == Cross(Vec(a1, a2), Vec(b1, b2))
        tn  == Cross(Vec(a1, b1), Vec(b1, b2))
        un  == Cross(Vec(a1, b1), Vec(a1, a2))
    IN  IF den > 0 THEN 0 <= tn /\ tn <= den /\ 0 <= un /\ un <= den
        ELSE IF den < 0 THEN den <= tn /\ tn <= 0 /\ den <= un /\ un <= 0
        ELSE \/ PointOnSegment(a1, b1, b2)
             \/ PointOnSegment(a2, b1, b2)
             \/ PointOnSegment(b1, a1, a2)
             \/ PointOnSegment(b2, a1, a2)

\* The edges a-b and b-c, which share the end point b, have no other common
\* point.
MeetOnlyAtShared(a, b, c) ==
    /\ ~(a # b /\ PointOnSegment(a, b, c))
    /\ ~(c # b /\ PointOnSegment(c, a, b))

\* The i-th edge of the closed ring joins RingAt(ring, i) to
\* RingAt(ring, i + 1); the last edge is the closing edge.
RingAt(ring, i) == ring[((i - 1) % Len(ring)) + 1]

\* The closed ring is a simple polygon: adjacent edges meet only at the end
\* point they share and other edges do not meet.
RingSimple(ring) ==
    \A i \in 1..Len(ring) : \A j \in (i + 1)..Len(ring) :
        IF j = i + 1
        THEN MeetOnlyAtShared(RingAt(ring, i), RingAt(ring, j), RingAt(ring, j + 1))
        ELSE IF i = 1 /\ j = Len(ring)
        THEN MeetOnlyAtShared(RingAt(ring, j), RingAt(ring, i), RingAt(ring, i + 1))
        ELSE ~SegmentsSharePoint(RingAt(ring, i), RingAt(ring, i + 1),
                                 RingAt(ring, j), RingAt(ring, j + 1))

SeqsUpTo(S, n) == UNION {[1..k -> S] : k \in 0..n}

\* <<0, 1, ..., n - 1>>
Iota(n) == [i \in 1..n |-> i - 1]

\* <<1, 2, ..., n>>
Iota1(n) == [i \in 1..n |-> i]

SetMin(S) == CHOOSE x \in S : \A y \in S : x <= y

-----------------------------------------------------------------------------
(* Specifications of the pure functions: Init draws the arguments, the     *)
(* action applies the function.                                            *)

SegPoints == (0..SegMax) \X (0..SegMax)

GuardPoints == (0..GuardMax) \X (0..1)


\* The application at rest: nothing stored, nothing loaded, nothing drawn.
AppQuiet ==
    /\ zones = <<>>
    /\ loading = FALSE
    /\ stored = <<>>
    /\ loadPending = FALSE
    /\ nextId = 1
    /\ drawingMode = "null"
    /\ drawingShape = NoShape
    /\ redoStack = <<>>
    /\ showDetailsModal = FALSE
    /\ selectedZone = <<>>
    /\ showActionSheet = FALSE
    /\ showZoneListModal = FALSE
    /\ confirmation = NoConfirmation
    /\ toast = NoToast
    /\ previousZonesRef = <<>>
    /\ storageOps = <<>>
    /\ pendingUpdates = NoUpdates

InitSeg ==
    /\ AppQuiet
    /\ args \in [fn : {"doLinesIntersect"}, p1 : SegPoints, p2 : SegPoints,
                 p3 : SegPoints, p4 : SegPoints]
    /\ ret = NotCalled

CallDoLinesIntersect ==
    /\ args.fn = "doLinesIntersect"
    /\ ~ret.done
    /\ ret' = [done |-> TRUE,
               value |-> doLinesIntersect(args.p1, args.p2, args.p3, args.p4)]
    /\ UNCHANGED <<appVars, args>>

NextSeg == CallDoLinesIntersect

SpecSeg == InitSeg /\ [][NextSeg]_vars

InitGuard ==
    /\ AppQuiet
    /\ args \in [fn : {"wouldIntersect"},
                 existingPoints : SeqsUpTo(GuardPoints, MaxGuardRing),
                 newPoint : GuardPoints]
    /\ ret = NotCalled

CallWouldIntersect ==
    /\ args.fn = "wouldIntersect"
    /\ ~ret.done
    /\ ret' = [done |-> TRUE,
               value |-> wouldIntersectRun(args.existingPoints, args.newPoint)]
    /\ UNCHANGED <<appVars, args>>

NextGuard == CallWouldIntersect

SpecGuard == InitGuard /\ [][NextGuard]_vars

\* A zone record as it may sit in a list handed to checkZoneOverlap.
RawZone(id, type, coordinates, radius) ==
    [id |-> id, name |-> "zone", color |-> "blue", type |-> type,
     coordinates |-> coordinates, radius |-> radius,
     area |-> NullArea, center |-> NullCenter]

\* The existing zones of the scans: a square and a circle that meet the
\* candidates, a triangle far from them, and three zones that cannot be
\* converted (unknown type, a polygon of two points, a circle whose centre
\* is a {latitude, longitude} object).
ScanPool ==
    { RawZone(1, "polygon", JsRing(rectangleCoords(0, 0)), 0),
      RawZone(2, "circle", JsRing(<<<<1, 3>>>>), CircleRadiusM),
      RawZone(3, "polygon", JsRing(<< <<20, 20>>, <<20, 23>>, <<21, 23>> >>), 0),
      RawZone(4, "square", JsRing(rectangleCoords(0, 0)), 0),
      RawZone(5, "polygon", JsRing(<< <<0, 0>>, <<1, 3>> >>), 0),
      RawZone(6, "circle",
              [wrap |-> 0, pts |-> <<[k |-> "geo", lat |-> 0, lng |-> 0]>>],
              CircleRadiusM) }

ScanCandidates ==
    { RawZone(0, "polygon", JsRing(rectangleCoords(1, 3)), 0),
      RawZone(0, "circle", JsRing(<<<<0, 0>>>>), CircleRadiusM),
      RawZone(0, "polygon", JsRing(<< <<0, 0>>, <<0, 3>>, <<1, 3>> >>), 0) }

InitOverlap ==
    /\ AppQuiet
    /\ args \in [fn : {"checkZoneOverlap"},
                 newZone : ScanCandidates,
                 existingZones : SeqsUpTo(ScanPool, MaxScan),
                 throwing : {{}} \cup {{z.id} : z \in ScanPool}]
    /\ ret = NotCalled

CallCheckZoneOverlap ==
    /\ args.fn = "checkZoneOverlap"
    /\ ~ret.done
    /\ ret' = [done |-> TRUE,
               value |-> checkZoneOverlapRun(args.newZone, args.existingZones,
                                             args.throwing)]
    /\ UNCHANGED <<appVars, args>>

NextOverlap == CallCheckZoneOverlap

SpecOverlap == InitOverlap /\ [][NextOverlap]_vars

\* Candidates that cannot be converted: an unknown type, circles without a
\* center or with a center that is a {latitude, longitude} object or a
\* number, polygons and rectangles without a valid point, and a polygon of
\* two points.
BadCandidates ==
    { RawZone(0, "square", JsRing(rectangleCoords(0, 0)), 0),
      RawZone(0, "circle", JsRing(<<>>), CircleRadiusM),
      RawZone(0, "circle",
              [wrap |-> 0, pts |-> <<[k |-> "geo", lat |-> 0, lng |-> 0]>>],
              CircleRadiusM),
      RawZone(0, "circle",
              [wrap |-> 0, pts |-> <<[k |-> "num", lat |-> 0, lng |-> 0]>>],
              CircleRadiusM),
      RawZone(0, "polygon", JsRing(<<>>), 0),
      RawZone(0, "polygon",
              [wrap |-> 0, pts |-> <<[k |-> "geo", lat |-> 0, lng |-> 0],
                                     [k |-> "bad", lat |-> 0, lng |-> 0]>>], 0),
      RawZone(0, "polygon", JsRing(<< <<0, 0>>, <<1, 3>> >>), 0),
      RawZone(0, "rectangle", JsRing(<<>>), 0),
      RawZone(0, "rectangle",
              [wrap |-> 0, pts |-> <<[k |-> "bad", lat |-> 0, lng |-> 0],
                                     [k |-> "num", lat |-> 0, lng |-> 0]>>], 0) }

\* checkZoneOverlap called with a candidate and a list that may be missing.
InitCandidate ==
    /\ AppQuiet
    /\ args \in [fn : {"checkZoneOverlap"},
                 newZone : {<<>>} \cup {<<z>> : z \in ScanCandidates \cup BadCandidates},
                 existingZones : {<<>>} \cup {<<l>> : l \in SeqsUpTo(ScanPool, MaxCandidateScan)},
                 throwing : {{}} \cup {{z.id} : z \in ScanPool}]
    /\ ret = NotCalled

CallCheckZoneOverlapCall ==
    /\ args.fn = "checkZoneOverlap"
    /\ ~ret.done
    /\ ret' = [done |-> TRUE,
               value |-> checkZoneOverlapCall(args.newZone, args.existingZones,
                                              args.throwing)]
    /\ UNCHANGED <<appVars, args>>

NextCandidate == CallCheckZoneOverlapCall

SpecCandidate == InitCandidate /\ [][NextCandidate]_vars

\* The raw points with coordinates in (0..latMax) \X (0..lngMax).
RawPoints(latMax, lngMax) ==
    {[k |-> k, lat |-> lat, lng |-> lng] :
        k \in {"arr", "obj", "geo"}, lat \in 0..latMax, lng \in 0..lngMax}
    \cup {[k |-> "bad", lat |-> 0, lng |-> 0], [k |-> "num", lat |-> 0, lng |-> 0]}

\* The point conversions applied to one raw point.
InitPoint ==
    /\ AppQuiet
    /\ args \in [fn : {"normalizePoint"}, point : RawPoints(PointMax, PointMax)]
    /\ ret = NotCalled

CallNormalizePoint ==
    /\ args.fn = "normalizePoint"
    /\ ~ret.done
    /\ ret' = [done |-> TRUE,
               value |-> [turfPoint |-> polygonTurfPoint(args.point),
                          turfCenter |-> circleTurfCenter(args.point),
                          layerPoint |-> layerPoint(args.point),
                          layerCenter |-> layerCenter(args.point)]]
    /\ UNCHANGED <<appVars, args>>

NextPoint == CallNormalizePoint

SpecPoint == InitPoint /\ [][NextPoint]_vars

\* The ring conversions applied to one polygon zone.
InitRing ==
    /\ AppQuiet
    /\ \E wrap \in 0..MaxWrap :
       \E pts \in SeqsUpTo(RawPoints(1, RingLngMax), MaxPts) :
          args = [fn |-> "normalizeRing",
                  zone |-> RawZone(0, "polygon", [wrap |-> wrap, pts |-> pts], 0)]
    /\ ret = NotCalled

CallNormalizeRing ==
    /\ args.fn = "normalizeRing"
    /\ ~ret.done
    /\ ret' = [done |-> TRUE,
               value |-> [geometry |-> zoneToTurfGeometry(args.zone),
                          coordinates |-> layerCoordinates(args.zone)]]
    /\ UNCHANGED <<appVars, args>>

NextRing == CallNormalizeRing

SpecRing == InitRing /\ [][NextRing]_vars

\* The zones handed to the metrics: polygons and rectangles given as
\* arrays of [lat, lng], and circles.
MetricPoints == (0..MetricMax) \X (0..MetricMax)

MetricZones ==
    { RawZone(0, "polygon", JsRing(ring), 0) :
        ring \in UNION {[1..n -> MetricPoints] : n \in 3..MaxMetricRing} }
    \cup { RawZone(0, "rectangle", JsRing(ring), 0) :
             ring \in [1..4 -> MetricPoints] }
    \cup { RawZone(0, "circle", JsRing(<<p>>), CircleRadiusM) : p \in MetricPoints }

InitMetrics ==
    /\ AppQuiet
    /\ args \in [fn : {"calculateZoneArea", "calculateZoneCenter"},
                 zone : MetricZones]
    /\ ret = NotCalled

CallCalculateZoneArea ==
    /\ args.fn = "calculateZoneArea"
    /\ ~ret.done
    /\ ret' = [done |-> TRUE, value |-> calculateZoneArea(args.zone)]
    /\ UNCHANGED <<appVars, args>>

CallCalculateZoneCenter ==
    /\ args.fn = "calculateZoneCenter"
    /\ ~ret.done
    /\ ret' = [done |-> TRUE, value |-> calculateZoneCenter(args.zone)]
    /\ UNCHANGED <<appVars, args>>

NextMetrics == CallCalculateZoneArea \/ CallCalculateZoneCenter

SpecMetrics == InitMetrics /\ [][NextMetrics]_vars

\* The rings of the comparison of the two area paths: the rectangles with
\* sides along the axes and corners in (0..AreaLatMax) \X (0..AreaLngMax),
\* in the order of handleMapPress (top-left, top-right, bottom-right,
\* bottom-left), from every corner and in both directions, and every ring
\* of four points of MetricPoints.
RectangleRings ==
    { << <<lat2, lng1>>, <<lat2, lng2>>, <<lat1, lng2>>, <<lat1, lng1>> >> :
        lat1 \in 0..AreaLatMax, lat2 \in 0..AreaLatMax,
        lng1 \in 0..AreaLngMax, lng2 \in 0..AreaLngMax }

AreaRings ==
    { [i \in 1..4 |-> ring[((i - 1 + k) % 4) + 1]] :
        ring \in {r \in RectangleRings : r[1][1] > r[3][1] /\ r[1][2] < r[3][2]},
        k \in 0..3 }
    \cup { [i \in 1..4 |-> ring[((4 - i + k) % 4) + 1]] :
        ring \in {r \in RectangleRings : r[1][1] > r[3][1] /\ r[1][2] < r[3][2]},
        k \in 0..3 }
    \cup [1..4 -> MetricPoints]

\* calculateZoneArea called on a ring of four points as a rectangle or as a
\* polygon; ulp is the last digit of the Math.cos of the engine.
InitArea ==
    /\ AppQuiet
    /\ args \in [fn : {"calculateZoneArea"},
                 zone : {RawZone(0, type, JsRing(ring), 0) :
                            type \in {"rectangle", "polygon"}, ring \in AreaRings},
                 ulp : {-1, 0, 1}]
    /\ ret = NotCalled

\* The result with the quantities it is computed from.
CallCalculateZoneAreaM2 ==
    /\ args.fn = "calculateZoneArea"
    /\ ~ret.done
    /\ ret' = [done |-> TRUE,
               value |-> [area |-> calculateZoneArea(args.zone),
                          m2 |-> calculateZoneAreaM2(args.zone, args.ulp)]]
    /\ UNCHANGED <<appVars, args>>

NextArea == CallCalculateZoneAreaM2

SpecArea == InitArea /\ [][NextArea]_vars

\* The axis-aligned square of half side h around <<lat, lng>>, drawn like
\* the rectangle of handleMapPress.
SquareRing(lat, lng, h) ==
    << <<lat + h, lng - h>>, <<lat + h, lng + h>>,
       <<lat - h, lng + h>>, <<lat - h, lng - h>> >>

SquareHalves == {1, 3}

Squares(id) ==
    { RawZone(id, "polygon", JsRing(SquareRing(lat, lng, h)), 0) :
        lat \in 0..SquareMax, lng \in 0..SquareMax, h \in SquareHalves }

InitSquares ==
    /\ AppQuiet
    /\ args \in [fn : {"checkZoneOverlap"},
                 newZone : Squares(0),
                 existingZones : {<<z>> : z \in Squares(1)},
                 throwing : {{}}]
    /\ ret = NotCalled

NextSquares == CallCheckZoneOverlap

SpecSquares == InitSquares /\ [][NextSquares]_vars

-----------------------------------------------------------------------------
(* Properties of doLinesIntersect and wouldIntersect.                      *)

SegCalled == args.fn = "doLinesIntersect" /\ ret.done

GuardCalled == args.fn = "wouldIntersect" /\ ret.done

\* C2: doLinesIntersect(a1, a2, b1, b2) is true iff the closed segments
\* a1-a2 and b1-b2 have a common point (crossing, touching, collinear
\* overlap), zero-length segments included.
C2_IntersectIffSharePoint ==
    SegCalled =>
        (ret.value <=> SegmentsSharePoint(args.p1, args.p2, args.p3, args.p4))

\* C2 witness: a collinear overlap of two proper segments, none of whose end
\* points coincide, has been reported as an intersection.
C2_WitnessCollinearOverlap ==
    /\ SegCalled
    /\ ret.value
    /\ args.p1 # args.p2 /\ args.p3 # args.p4
    /\ {args.p1, args.p2} \cap {args.p3, args.p4} = {}
    /\ direction(args.p1, args.p2, args.p3) = 0
    /\ direction(args.p1, args.p2, args.p4) = 0

\* C3: wouldIntersect answers false for every candidate when the ring has
\* fewer than 2 points.
C3_ShortRingNeverIntersects ==
    (GuardCalled /\ Len(args.existingPoints) < 2) => ret.value.result = FALSE

\* C3 witness: the guard ran on a ring of one point with a candidate equal to
\* that point.
C3_WitnessOnePointRing ==
    /\ GuardCalled
    /\ Len(args.existingPoints) = 1
    /\ args.existingPoints[1] = args.newPoint
    /\ ret.value.result = FALSE

\* The 0-based indices i of the ring edges (ring[i], ring[i+1]) in I that
\* intersect the segment a-b.
EdgeHits(ring, a, b, I) ==
    {i \in I : doLinesIntersect(a, b, ring[i + 1], ring[i + 2])}

NewLineHits ==
    LET r == args.existingPoints
    IN  EdgeHits(r, r[Len(r)], args.newPoint, 0..(Len(r) - 3))

ClosingHits ==
    LET r == args.existingPoints
    IN  EdgeHits(r, args.newPoint, r[1], 1..(Len(r) - 2))

\* C4: for a ring of 2 or more points the new segment last -> candidate is
\* compared with the edges 0 .. n-3 in order (every edge but the one ending
\* at the last point), up to and including the first edge that intersects
\* it, where the guard answers true at once.
C4_NewSegmentAgainstAllButPreceding ==
    (GuardCalled /\ Len(args.existingPoints) >= 2) =>
        LET n == Len(args.existingPoints)
        IN  IF NewLineHits = {}
            THEN ret.value.newTested = Iota(n - 2)
            ELSE /\ ret.value.result = TRUE
                 /\ ret.value.newTested = Iota(SetMin(NewLineHits) + 1)
                 /\ ret.value.closeTested = <<>>

\* C4 witness: a ring of 4 points whose edge 0 misses the new segment and
\* whose edge 1 intersects it.
C4_WitnessSecondEdgeHit ==
    /\ GuardCalled
    /\ Len(args.existingPoints) = 4
    /\ NewLineHits = {1}
    /\ ret.value.result = TRUE

\* C5: when the new segment meets no compared edge, the closing segment
\* candidate -> first is compared with the edges 1 .. n-2 in order (every
\* edge but the one starting at the first point), up to the first one that
\* intersects it; the guard answers false exactly when neither test finds an
\* intersection.
C5_ClosingSegmentAndResult ==
    (GuardCalled /\ Len(args.existingPoints) >= 2) =>
        LET n == Len(args.existingPoints)
        IN  /\ ret.value.result = (NewLineHits # {} \/ ClosingHits # {})
            /\ NewLineHits = {} =>
                   ret.value.closeTested =
                       IF ClosingHits = {} THEN Iota1(n - 2)
                       ELSE Iota1(SetMin(ClosingHits))

\* C5 witness: a ring of 4 points accepted by the new-segment test and
\* rejected because the closing segment intersects the last ring edge only.
C5_WitnessClosingHitsLastEdge ==
    /\ GuardCalled
    /\ Len(args.existingPoints) = 4
    /\ NewLineHits = {}
    /\ ClosingHits = {2}
    /\ ret.value.result = TRUE

-----------------------------------------------------------------------------
(* Properties of checkZoneOverlap.                                         *)

OverlapCalled == args.fn = "checkZoneOverlap" /\ ret.done

\* The existing zone is converted, its comparison does not throw, and it
\* overlaps or intersects the candidate.
MeetsCandidate(z) ==
    /\ zoneToTurfGeometry(z).ok
    /\ z.id \notin args.throwing
    /\ \/ turfBooleanOverlap(zoneToTurfGeometry(args.newZone), zoneToTurfGeometry(z))
       \/ turfBooleanIntersects(zoneToTurfGeometry(args.newZone), zoneToTurfGeometry(z))

\* C10: an existing zone that cannot be converted, or whose comparison
\* throws, is skipped and the scan goes on: overlappingZones is the list of
\* the other zones that overlap or intersect the candidate, in list order,
\* and hasOverlap is true iff that list is not empty.
C10_ScanSkipsAndContinues ==
    OverlapCalled =>
        /\ ret.value.overlappingZones = SelectSeq(args.existingZones, MeetsCandidate)
        /\ ret.value.hasOverlap = (ret.value.overlappingZones # <<>>)

\* C10 witness: a scan of three zones whose first cannot be converted, whose
\* second throws and whose third overlaps the candidate and is reported.
C10_WitnessOverlapAfterSkipped ==
    /\ OverlapCalled
    /\ Len(args.existingZones) = 3
    /\ ~zoneToTurfGeometry(args.existingZones[1]).ok
    /\ zoneToTurfGeometry(args.existingZones[2]).ok
    /\ args.existingZones[2].id \in args.throwing
    /\ MeetsCandidate(args.existingZones[3])
    /\ ret.value.overlappingZones = <<args.existingZones[3]>>
    /\ ret.value.hasOverlap

\* The candidate has a type other than circle, polygon and rectangle.
UnknownType(zone) == zone.type \notin {"circle", "polygon", "rectangle"}

\* The candidate is a circle whose center is absent or is neither an array
\* nor an object with lat and lng.
InvalidCenter(zone) ==
    /\ zone.type = "circle"
    /\ \/ zone.coordinates.pts = <<>>
       \/ zone.coordinates.pts[1].k \notin {"arr", "obj"}

\* The candidate is a polygon or a rectangle none of whose points is an
\* array or an object with lat and lng.
NoValidPoints(zone) ==
    /\ zone.type \in {"polygon", "rectangle"}
    /\ \A i \in DOMAIN zone.coordinates.pts :
          zone.coordinates.pts[i].k \notin {"arr", "obj"}

CandidateNotConverted ==
    \/ args.newZone = <<>>
    \/ /\ args.newZone # <<>>
       /\ \/ UnknownType(args.newZone[1])
          \/ InvalidCenter(args.newZone[1])
          \/ NoValidPoints(args.newZone[1])
          \/ ~zoneToTurfGeometry(args.newZone[1]).ok

ListMissingOrEmpty == args.existingZones \in {<<>>, << <<>> >>}

BoxOf(zone) ==
    LET c == LatticeRing(zone.coordinates.pts)
    IN  [minLat |-> SeqMin([i \in DOMAIN c |-> c[i][1]]),
         maxLat |-> SeqMax([i \in DOMAIN c |-> c[i][1]]),
         minLng |-> SeqMin([i \in DOMAIN c |-> c[i][2]]),
         maxLng |-> SeqMax([i \in DOMAIN c |-> c[i][2]])]

\* Two closed boxes have a common point (of their area or their boundary).
BoxesMeet(a, b) ==
    /\ a.minLat <= b.maxLat /\ b.minLat <= a.maxLat
    /\ a.minLng <= b.maxLng /\ b.minLng <= a.maxLng

\* Box a lies in the interior of box b.
BoxStrictlyInside(a, b) ==
    /\ b.minLat < a.minLat /\ a.maxLat < b.maxLat
    /\ b.minLng < a.minLng /\ a.maxLng < b.maxLng

\* C11: for two axis-aligned squares checkZoneOverlap reports the existing
\* square exactly when the two regions share area or boundary: disjoint
\* squares are not reported, identical squares are, and so is a square
\* nested in the other although no two edges cross.
C11_SquaresReportedIffRegionsMeet ==
    OverlapCalled =>
        LET a == BoxOf(args.newZone)
            b == BoxOf(args.existingZones[1])
        IN  /\ ret.value.hasOverlap = BoxesMeet(a, b)
            /\ ret.value.overlappingZones =
                  IF BoxesMeet(a, b) THEN args.existingZones ELSE <<>>

\* C11 witness: the candidate square lies strictly inside the existing one,
\* no two edges meet, and the existing square is reported.
C11_WitnessNestedSquareReported ==
    /\ OverlapCalled
    /\ BoxStrictlyInside(BoxOf(args.newZone), BoxOf(args.existingZones[1]))
    /\ ~ringsLineIntersect(zoneToTurfGeometry(args.newZone).ring,
                           zoneToTurfGeometry(args.existingZones[1]).ring)
    /\ ret.value.hasOverlap
    /\ ret.value.overlappingZones = args.existingZones

-----------------------------------------------------------------------------
(* Properties of the coordinate conversions.                               *)

PointCalled == args.fn = "normalizePoint" /\ ret.done

RingCalled == args.fn = "normalizeRing" /\ ret.done

\* The Turf positions of the points of a raw ring that the overlap
\* conversion accepts, in their order.
AcceptedPositions(pts) ==
    LET valid == SelectSeq(pts, LAMBDA q : q.k \in {"arr", "obj"})
    IN  [i \in DOMAIN valid |-> <<valid[i].lng, valid[i].lat>>]

\* The ring r, with a copy of its first position added unless its last
\* position is the first one.
Closed(r) == IF r[Len(r)] = r[1] THEN r ELSE r \o <<r[1]>>

\* C12: the ring of a converted polygon zone is closed: it is the ring of
\* the accepted points, with a copy of the first position appended if and
\* only if the last position differs from the first; its first and last
\* positions are equal and closing it again adds nothing.
C12_ConvertedRingIsClosed ==
    (RingCalled /\ ret.value.geometry.ok) =>
        LET ring == ret.value.geometry.ring
            positions == polygonTurfCoords(args.zone.coordinates.pts)
        IN  /\ ring[1] = ring[Len(ring)]
            /\ positions[Len(positions)] = positions[1] => ring = positions
            /\ positions[Len(positions)] # positions[1]
                  => ring = Append(positions, positions[1])
            /\ closeRing(ring) = ring

\* C12 witness: a ring of three points and a copy of the first is converted
\* to the same four positions.
C12_WitnessClosedRingKept ==
    /\ RingCalled
    /\ ret.value.geometry.ok
    /\ Len(args.zone.coordinates.pts) = 4
    /\ Len(ret.value.geometry.ring) = 4

\* The raw encodings [lat, lng], {lat, lng} and {latitude, longitude} of
\* one point.
Encodings(lat, lng) ==
    {[k |-> k, lat |-> lat, lng |-> lng] : k \in {"arr", "obj", "geo"}}

\* C13: the encodings [lat, lng], {lat, lng} and {latitude, longitude} of a
\* point are converted to the same canonical point, which exists, by the
\* overlap conversion (polygon point and circle center) and by the rendering
\* (polygon point and circle center).
C13_EncodingsEquivalent ==
    (PointCalled /\ args.point.k \in {"arr", "obj", "geo"}) =>
        \A e \in Encodings(args.point.lat, args.point.lng) :
            /\ ret.value.turfPoint # <<>>
            /\ ret.value.turfCenter # <<>>
            /\ polygonTurfPoint(e) = ret.value.turfPoint
            /\ circleTurfCenter(e) = ret.value.turfCenter
            /\ layerPoint(e) = ret.value.layerPoint
            /\ layerCenter(e) = ret.value.layerCenter

\* The array [lng, lat] returned by the overlap conversion, read as a raw
\* point: its element 0 is taken for the latitude.
PositionAsRaw(position) ==
    [k |-> "arr", lat |-> position[1], lng |-> position[2]]

\* The object {latitude, longitude} returned by the rendering, read as a
\* raw point.
LatLngAsRaw(c) ==
    IF c.latitude # <<>> /\ c.longitude # <<>>
    THEN [k |-> "geo", lat |-> c.latitude[1], lng |-> c.longitude[1]]
    ELSE IF c.latitude # <<>>
    THEN [k |-> "geoLat", lat |-> c.latitude[1], lng |-> 0]
    ELSE IF c.longitude # <<>>
    THEN [k |-> "geoLng", lat |-> 0, lng |-> c.longitude[1]]
    ELSE [k |-> "bad", lat |-> 0, lng |-> 0]

\* C14, as claimed: converting a converted point again returns it
\* unchanged, in the overlap conversion and in the rendering.
C14_NormalizeIdempotent ==
    PointCalled =>
        /\ ret.value.turfPoint # <<>> =>
              polygonTurfPoint(PositionAsRaw(ret.value.turfPoint[1]))
                  = ret.value.turfPoint
        /\ ret.value.layerPoint # <<>> =>
              layerPoint(LatLngAsRaw(ret.value.layerPoint[1]))
                  = ret.value.layerPoint

\* C14, amended: the rendering's conversion is idempotent; the overlap
\* conversion turns [lat, lng] into Turf's [lng, lat], and applied to its
\* own result it gives the two numbers back in the order it received them,
\* so that it is idempotent exactly on the points with lat = lng.
C14_RenderingIdempotentOverlapSwaps ==
    PointCalled =>
        /\ ret.value.layerPoint # <<>> =>
              layerPoint(LatLngAsRaw(ret.value.layerPoint[1]))
                  = ret.value.layerPoint
        /\ layerCenter(LatLngAsRaw(ret.value.layerCenter)) = ret.value.layerCenter
        /\ ret.value.turfPoint # <<>> =>
              /\ polygonTurfPoint(PositionAsRaw(ret.value.turfPoint[1]))
                    = <<<<args.point.lat, args.point.lng>>>>
              /\ (polygonTurfPoint(PositionAsRaw(ret.value.turfPoint[1]))
                    = ret.value.turfPoint) <=> (args.point.lat = args.point.lng)

\* C14 witness: a {lat, lng} point with different coordinates, one of them
\* zero, has been converted for the overlap check and for the rendering.
C14_WitnessConvertedObject ==
    /\ PointCalled
    /\ args.point.k = "obj"
    /\ args.point.lat = 0
    /\ args.point.lng # 0
    /\ ret.value.turfPoint = <<<<args.point.lng, 0>>>>
    /\ ret.value.layerPoint # <<>>

\* C15: whatever the singleton nesting of the ring, the overlap conversion
\* keeps exactly the points it accepts, in their order, and produces no
\* geometry when there is no such point.
C15_RingKeepsValidPoints ==
    RingCalled =>
        LET positions == AcceptedPositions(args.zone.coordinates.pts)
        IN  /\ positions = <<>> => ~ret.value.geometry.ok
            /\ (positions # <<>> /\ Len(Closed(positions)) >= 4) =>
                  /\ ret.value.geometry.ok
                  /\ ret.value.geometry.ring = Closed(positions)

-----------------------------------------------------------------------------
(* Properties of the metrics.                                              *)

AreaCalled == args.fn = "calculateZoneArea" /\ ret.done

CenterCalled == args.fn = "calculateZoneCenter" /\ ret.done

\* The ring c started k positions later.
Rotated(c, k) == [i \in DOMAIN c |-> c[((i - 1 + k) % Len(c)) + 1]]

\* The ring c in the opposite order.
Reversed(c) == [i \in DOMAIN c |-> c[Len(c) + 1 - i]]

\* The zone with its ring replaced.
WithRing(zone, ring) == [zone EXCEPT !.coordinates = JsRing(ring)]

\* C16: the area calculateZoneArea computes for a polygon is the same for
\* every cyclic rotation of its vertex list and for the reversed list
\* (whether the polygon is simple or not).
C16_AreaRotationReversalInvariant ==
    (AreaCalled /\ args.zone.type = "polygon") =>
        LET c == LatticeRing(args.zone.coordinates.pts)
        IN  /\ \A k \in 0..(Len(c) - 1) :
                  calculateZoneArea(WithRing(args.zone, Rotated(c, k))) = ret.value
            /\ calculateZoneArea(WithRing(args.zone, Reversed(c))) = ret.value

\* C16 witness: the area of a simple quadrilateral that is not a rectangle,
\* 3/2 square units, has been computed.
C16_WitnessQuadrilateralArea ==
    /\ AreaCalled
    /\ args.zone.type = "polygon"
    /\ LatticeRing(args.zone.coordinates.pts)
          = << <<0, 0>>, <<0, 2>>, <<1, 2>>, <<1, 1>> >>
    /\ RingSimple(LatticeRing(args.zone.coordinates.pts))
    /\ ret.value.kind = "planar"
    /\ ret.value.twice = 3

\* The sum of the i-th coordinates of the points of c, added up from the
\* last point to the first.
RECURSIVE CoordinateSum(_, _)
CoordinateSum(c, i) ==
    IF c = <<>> THEN 0
    ELSE c[Len(c)][i] + CoordinateSum(SubSeq(c, 1, Len(c) - 1), i)

\* C17: the center of a polygon or rectangle is the mean of its vertices
\* (n * center = sum of the vertices), and the center of a circle is its
\* center point.
C17_CenterIsVertexMean ==
    CenterCalled =>
        LET c == LatticeRing(args.zone.coordinates.pts)
        IN  /\ ret.value.kind = "point"
            /\ args.zone.type \in {"polygon", "rectangle"} =>
                  /\ ret.value.den = Len(c)
                  /\ ret.value.latNum = CoordinateSum(c, 1)
                  /\ ret.value.lngNum = CoordinateSum(c, 2)
            /\ args.zone.type = "circle" =>
                  /\ ret.value.den = 1
                  /\ <<ret.value.latNum, ret.value.lngNum>> = c[1]

\* C17 witness: a triangle with one more vertex in the middle of an edge.
\* The mean of the four vertices is <<2/4, 5/4>>; the centroid of the area
\* is <<2/3, 4/3>>.
C17_WitnessVertexMeanNotAreaCentroid ==
    /\ CenterCalled
    /\ args.zone.type = "polygon"
    /\ LatticeRing(args.zone.coordinates.pts)
          = << <<0, 0>>, <<0, 1>>, <<0, 2>>, <<2, 2>> >>
    /\ ret.value = [kind |-> "point", latNum |-> 2, lngNum |-> 5, den |-> 4]

-----------------------------------------------------------------------------
(* Properties of drawing and completing a shape.                           *)

\* C1: in polygon mode, a ring of three or more points built by map taps is,
\* with its closing edge, a simple polygon: no two edges intersect, except
\* adjacent edges at the end point they share.
C1_TappedRingIsSimple ==
    (drawingMode = "polygon" /\ hasDrawing /\ Len(drawingShape.coordinates) >= 3)
        => RingSimple(drawingShape.coordinates)

\* The tap (latitude, longitude) is turned down by the guard in this step.
RejectedPress(latitude, longitude) ==
    /\ PressRejected(latitude, longitude)
    /\ handleMapPress(latitude, longitude)

\* C6: a tap rejected by the self-intersection guard leaves drawingMode, the
\* ring and the redo stack (and the zones) as they were; it only raises the
\* error toast.
C6_RejectedTapKeepsDrawing ==
    [][\A latitude \in TapLats : \A longitude \in TapLngs :
          RejectedPress(latitude, longitude) =>
              /\ drawingMode' = drawingMode
              /\ drawingShape' = drawingShape
              /\ redoStack' = redoStack
              /\ zones' = zones
              /\ toast' = Toast("Invalid point - would create crossing lines", "error")]_vars

\* C6 witness: a ring of three points still stands after a tap was turned
\* down with the crossing-lines toast.
C6_WitnessRejectedTap ==
    /\ drawingMode = "polygon"
    /\ hasDrawing
    /\ Len(drawingShape.coordinates) = 3
    /\ toast = Toast("Invalid point - would create crossing lines", "error")
    /\ \E latitude \in TapLats : \E longitude \in TapLngs :
          PressRejected(latitude, longitude)

\* A polygon drawing of one or two points.
ShortPolygon ==
    drawingMode = "polygon" /\ hasDrawing /\ Len(drawingShape.coordinates) < 3

\* C7: completing a polygon of fewer than three points is rejected:
\* handleComplete adds no zone, does not open the details modal and keeps
\* drawingMode, the ring and the redo stack; completeDrawing returns null
\* and changes nothing.
C7_ShortPolygonNotCompleted ==
    /\ [](ShortPolygon =>
            \A name \in Names \cup {""} : \A color \in Colors :
                LET run == completeDrawingRun([name |-> name, color |-> color])
                IN  /\ run.created = <<>>
                    /\ run.zones = zones
                    /\ run.drawingMode = drawingMode
                    /\ run.drawingShape = drawingShape
                    /\ run.redoStack = redoStack)
    /\ [][(ShortPolygon /\ handleComplete) =>
              /\ showDetailsModal' = FALSE
              /\ zones' = zones
              /\ drawingMode' = drawingMode
              /\ drawingShape' = drawingShape
              /\ redoStack' = redoStack
              /\ toast' = Toast("Polygon needs at least 3 points", "error")]_vars

\* C7 witness: a polygon of two points after a rejected completion.
C7_WitnessTwoPointsRejected ==
    /\ ShortPolygon
    /\ Len(drawingShape.coordinates) = 2
    /\ ~showDetailsModal
    /\ toast = Toast("Polygon needs at least 3 points", "error")

\* The drawn shape passes the vertex count test and overlaps a zone.
OverlapsExisting ==
    /\ hasDrawing
    /\ ~ShortPolygon
    /\ checkZoneOverlap(tempZone, zones).hasOverlap

\* C8: when the overlap check at completion reports an overlap, completion
\* is aborted: the details modal is not opened, the zone list does not
\* change and drawingMode and the drawn shape are kept.
C8_OverlapAbortsCompletion ==
    [][(OverlapsExisting /\ handleComplete) =>
          /\ showDetailsModal' = FALSE
          /\ zones' = zones
          /\ drawingMode' = drawingMode
          /\ drawingShape' = drawingShape
          /\ redoStack' = redoStack
          /\ toast' = Toast("Cannot save - overlaps", "error")]_vars

\* C8 witness: a drawn shape that overlaps a loaded zone, after its
\* completion was aborted.
C8_WitnessOverlapRejected ==
    /\ OverlapsExisting
    /\ ~loading
    /\ ~showDetailsModal
    /\ toast = Toast("Cannot save - overlaps", "error")

\* The overlap detector, given one of the zones as candidate, reports the
\* other.
ZonesOverlap(a, b) == checkZoneOverlap(a, <<b>>).hasOverlap

\* C9: no two zones of the zone list overlap each other.
C9_NoTwoZonesOverlap ==
    \A i \in DOMAIN zones : \A j \in DOMAIN zones :
        i < j => ~ZonesOverlap(zones[j], zones[i])

-----------------------------------------------------------------------------
(* Properties of the zone list.                                            *)

\* The stored area and center of the zone are the metrics of its shape.
MetricsDerived(zone) ==
    /\ zone.area = calculateZoneArea(zone)
    /\ zone.center = calculateZoneCenter(zone)

\* A geometry update for the zone: its points moved one unit of latitude.
MovedCoordinates(zone) ==
    [coordinates |->
        [wrap |-> zone.coordinates.wrap,
         pts |-> [i \in DOMAIN zone.coordinates.pts |->
                     [zone.coordinates.pts[i] EXCEPT !.lat = @ + 1]]]]

\* C18, as claimed: the area and the center of every zone of the list are
\* the metrics of its shape, and they are so again after updateZone has
\* changed the geometry of a zone.
C18_MetricsFollowGeometry ==
    \A i \in DOMAIN zones :
        /\ MetricsDerived(zones[i])
        /\ MetricsDerived(updateZone(zones[i].id, MovedCoordinates(zones[i]))[i])

\* C18, amended: the area and the center of every zone of the list are the
\* metrics of its shape, because no handler changes the geometry of a zone:
\* an update of name and color leaves type, coordinates, radius, area and
\* center as they were, and updateZone given new coordinates stores them and
\* leaves area and center as they were (nothing is recomputed).
C18_MetricsSetAtCreation ==
    \A i \in DOMAIN zones :
        /\ MetricsDerived(zones[i])
        /\ \A name \in Names : \A color \in Colors :
              LET zone == updateZone(zones[i].id,
                                     [name |-> name, color |-> color])[i]
              IN  /\ zone.name = name /\ zone.color = color
                  /\ zone.type = zones[i].type
                  /\ zone.coordinates = zones[i].coordinates
                  /\ zone.radius = zones[i].radius
                  /\ zone.area = zones[i].area
                  /\ zone.center = zones[i].center
        /\ LET zone == updateZone(zones[i].id, MovedCoordinates(zones[i]))[i]
           IN  /\ zone.coordinates = MovedCoordinates(zones[i]).coordinates
               /\ zone.area = zones[i].area
               /\ zone.center = zones[i].center

\* C18 witness: the stored rectangle, blue in storage, after an edit that
\* made it red.
C18_WitnessEditedZone ==
    /\ toast = Toast("Zone updated", "success")
    /\ \E i \in DOMAIN zones :
          /\ zones[i].id = StoredRect.id
          /\ zones[i].color = "red"
          /\ zones[i].area = StoredRect.area
          /\ zones[i].center = StoredRect.center

\* The details modal is open to create a zone.
ConfirmingCreation == showDetailsModal /\ selectedZone = <<>> /\ hasDrawing

\* C19: every zone of the list has type 'circle' or 'polygon', and the zone
\* that confirming the details creates has the type that handleComplete
\* gave to the overlap check, 'polygon' for a rectangle.
C19_RectangleStoredAsPolygon ==
    /\ \A i \in DOMAIN zones : zones[i].type \in {"circle", "polygon"}
    /\ ConfirmingCreation =>
          \A name \in Names : \A color \in Colors :
              LET run == completeDrawingRun([name |-> name, color |-> color])
              IN  /\ run.created # <<>>
                  /\ run.created[1].type = tempZone.type
                  /\ run.created[1].type \in {"circle", "polygon"}
                  /\ drawingMode = "rectangle" => run.created[1].type = "polygon"

\* C19 witness: the zone created from a rectangle drawing (a ring of four
\* points) is in the list as a polygon.
C19_WitnessRectangleCreated ==
    /\ toast = Toast("Zone created", "success")
    /\ \E i \in DOMAIN zones :
          /\ zones[i].id = 1
          /\ zones[i].type = "polygon"
          /\ \E latitude \in TapLats : \E longitude \in TapLngs :
                zones[i].coordinates = JsRing(rectangleCoords(latitude, longitude))

\* A map tap in polygon mode that adds its point to the ring in this step.
PointAdded ==
    /\ drawingMode = "polygon"
    /\ \E latitude \in TapLats : \E longitude \in TapLngs :
          /\ ~PressRejected(latitude, longitude)
          /\ handleMapPress(latitude, longitude)

\* C20: right after a polygon point has been added by a map tap the redo
\* stack is empty.
C20_RedoClearedWhenPointAdded ==
    [][PointAdded => redoStack' = <<>>]_vars

-----------------------------------------------------------------------------
(* Properties of the storage of the zone list.                             *)

\* The array in storage is the zone list (nothing in storage stands for the
\* list that was never changed).
Persisted ==
    IF stored = <<>> THEN zones = <<>>
    ELSE stored[1] = JSONparse(JSONstringify(zones))

\* C21: once the list stops changing, storage eventually holds the in-memory
\* zone list and keeps holding it.
C21_ChangesEventuallyPersisted ==
    []<><<zones' # zones>>_vars \/ <>[]Persisted

\* The step hands a setItem request to AsyncStorage.
WriteIssued ==
    /\ storageOps' # storageOps
    /\ Len(storageOps') >= Len(storageOps)

\* The list last loaded from storage or last saved to it; the empty list
\* when nothing was ever stored.
LastLoadedOrSaved == IF stored = <<>> THEN <<>> ELSE stored[1]

\* C25: a write is issued only by a render that has loading false and a
\* zone list that differs from the list last loaded or saved, and it
\* writes that zone list; a load that found a stored array issues no write,
\* and serving a write issues none.
C25_WriteOnlyWhenLoadedAndChanged ==
    [][/\ WriteIssued =>
             /\ ~loading'
             /\ storageOps'[Len(storageOps')] = SetItem(zones')
             /\ JSONstringify(zones') # JSONstringify(LastLoadedOrSaved)
       /\ (loadPending /\ ~loadPending' /\ stored # <<>>) =>
             /\ ~WriteIssued
             /\ zones' = stored[1]
       /\ stored' # stored => ~WriteIssued]_vars

\* After the load, a write of the changed zone list is in flight.
C25_WitnessWriteInFlight ==
    /\ ~loading
    /\ stored # <<>>
    /\ storageOps # <<>>
    /\ Head(storageOps) = SetItem(zones)
    /\ zones # stored[1]

\* C26: a zone created by addZone stays in the zone list until a confirmed
\* deletion takes it out, whenever the pending load finishes.
C26_AddedZoneStaysUntilDeleted ==
    [][\A i \in DOMAIN zones :
          zones[i].id \in 1..(nextId - 1) =>
             \/ \E j \in DOMAIN zones' : zones'[j].id = zones[i].id
             \/ confirmation.visible /\ ~confirmation'.visible]_vars

-----------------------------------------------------------------------------
(* Properties of undo and redo.                                            *)

\* undoLastPoint and then, in the next render, redoLastPoint.
UndoThenRedo ==
    LET undone == undoUpdate(drawingShape, redoStack)
    IN  redoUpdate(undone.drawingShape, undone.redoStack,
                   undone.redoStack[Len(undone.redoStack)])

\* C22: in polygon mode undo takes exactly the last point of the ring to
\* the top of the redo stack, and a redo after it gives back the ring and
\* the redo stack as they were, also when the ring had one point.
C22_UndoThenRedoRestores ==
    (drawingMode = "polygon" /\ ~drawingShape.null) =>
        LET coordinates == drawingShape.coordinates
            undone == undoUpdate(drawingShape, redoStack)
        IN  /\ undone.redoStack = Append(redoStack, coordinates[Len(coordinates)])
            /\ undone.drawingShape.coordinates =
                   SubSeq(coordinates, 1, Len(coordinates) - 1)
            /\ undone.drawingShape.null = (Len(coordinates) = 1)
            /\ UndoThenRedo.drawingShape = drawingShape
            /\ UndoThenRedo.redoStack = redoStack

\* A ring of one point with an undone point on the redo stack: the undo of
\* the only point, then the redo, is applied to it.
C22_WitnessOnlyPointRestored ==
    /\ drawingMode = "polygon"
    /\ ~drawingShape.null
    /\ Len(drawingShape.coordinates) = 1
    /\ redoStack # <<>>
    /\ undoUpdate(drawingShape, redoStack).drawingShape.null
    /\ UndoThenRedo.drawingShape = drawingShape

\* C27: in a polygon drawing every point after the first was accepted by
\* wouldIntersect against the points that precede it in the ring.
C27_PointsValidatedAgainstPrefix ==
    (drawingMode = "polygon" /\ ~drawingShape.null) =>
        \A k \in 2..Len(drawingShape.coordinates) :
            ~wouldIntersect(SubSeq(drawingShape.coordinates, 1, k - 1),
                            drawingShape.coordinates[k])

\* The ring followed by the redo stack, top first.
PointSequence(shape, stack) == shape.coordinates \o Reversed(stack)

\* The updates queued come from undo events only, or from redo events only.
UndoBatch ==
    /\ \A i \in DOMAIN pendingUpdates.drawingShape :
          pendingUpdates.drawingShape[i].fn \in {"set", "undo"}
    /\ \A i \in DOMAIN pendingUpdates.redoStack :
          pendingUpdates.redoStack[i].fn = "push"

RedoBatch ==
    /\ \A i \in DOMAIN pendingUpdates.drawingShape :
          pendingUpdates.drawingShape[i].fn = "append"
    /\ \A i \in DOMAIN pendingUpdates.redoStack :
          pendingUpdates.redoStack[i].fn = "slice"

\* C28: a render that works off undo events, or redo events, leaves the
\* ring followed by the reversed redo stack as it was, whether one event
\* was handled since the last render or two.
C28_UndoRedoConservePoints ==
    [][(pendingUpdates # NoUpdates /\ pendingUpdates' = NoUpdates
           /\ (UndoBatch \/ RedoBatch)) =>
          PointSequence(drawingShape', redoStack')
             = PointSequence(drawingShape, redoStack)]_vars

-----------------------------------------------------------------------------
(* Properties of the two area paths of calculateZoneArea.                  *)

AreaRing == LatticeRing(args.zone.coordinates.pts)

\* The ring runs around a rectangle with sides along the axes: its edges
\* are alternately of constant latitude and of constant longitude, and
\* opposite corners differ in both.
AxisAlignedRectangle(c) ==
    /\ c[1][1] # c[3][1]
    /\ c[1][2] # c[3][2]
    /\ \/ /\ c[1][1] = c[2][1] /\ c[2][2] = c[3][2]
          /\ c[3][1] = c[4][1] /\ c[4][2] = c[1][2]
       \/ /\ c[1][2] = c[2][2] /\ c[2][1] = c[3][1]
          /\ c[3][2] = c[4][2] /\ c[4][1] = c[1][1]

\* What the other path makes of the same ring.
OtherPath ==
    LET other == [args.zone EXCEPT
                     !.type = IF @ = "rectangle" THEN "polygon" ELSE "rectangle"]
    IN  [area |-> calculateZoneArea(other),
         m2 |-> calculateZoneAreaM2(other, args.ulp)]

SameDegreeArea == ret.value.area.twice = OtherPath.area.twice

SameAverageLatitude ==
    ret.value.area.latNum * OtherPath.area.latDen
        = OtherPath.area.latNum * ret.value.area.latDen

\* The two doubles are neighbours: same exponent, mantissas one apart.
AdjacentDoubles(x, y) ==
    /\ x.e = y.e
    /\ x.m # <<>> /\ y.m # <<>>
    /\ addOne(x.m) = y.m \/ addOne(y.m) = x.m

LngSpan == Abs(AreaRing[1][2] - AreaRing[3][2])

AreaPathCalled ==
    args.fn = "calculateZoneArea" /\ ret.done /\ AxisAlignedRectangle(AreaRing)

-----------------------------------------------------------------------------
(* Properties of deleting zones.                                           *)

\* The step takes a zone out of the list by deleteZone or clearZones (a
\* finished load replaces the list).
ZoneDeleted ==
    /\ ~(loadPending /\ ~loadPending')
    /\ \E i \in DOMAIN zones : \A j \in DOMAIN zones' : zones'[j].id # zones[i].id

\* C23: zones are deleted only by confirming the confirmation modal, which
\* was opened for that deletion and names the zone selected at that moment;
\* confirming a single deletion removes that zone and no other, and
\* cancelling leaves the list as it is.
C23_DeletionOnlyWhenConfirmed ==
    [][/\ ZoneDeleted =>
             /\ confirmation.visible
             /\ ~confirmation'.visible
             /\ confirmation.onConfirm = "clearZones" => zones' = <<>>
             /\ confirmation.onConfirm = "deleteZone" =>
                    zones' = SelectSeq(zones,
                                 LAMBDA zone : zone.id # confirmation.captured[1].id)
       /\ (~confirmation.visible /\ confirmation'.visible) =>
             IF confirmation'.onConfirm = "deleteZone"
             THEN selectedZone # <<>> /\ confirmation'.captured = selectedZone
             ELSE confirmation'.onConfirm = "clearZones"
       /\ (confirmation.visible /\ confirmation'.visible) =>
             confirmation' = confirmation
       /\ cancelConfirmation => zones' = zones]_vars

\* One of two zones was deleted after the confirmation; the other is left.
C23_WitnessOneOfTwoDeleted ==
    /\ toast = Toast("Zone deleted", "success")
    /\ ~confirmation.visible
    /\ Len(zones) = 1
    /\ stored # <<>>
    /\ Len(stored[1]) = 1

-----------------------------------------------------------------------------
(* Properties of completeDrawing.                                          *)

\* completeDrawing has something to complete.
DrawingComplete ==
    /\ ~drawingShape.null
    /\ drawingMode = "polygon" => Len(drawingShape.coordinates) >= 3

\* C24: wherever completeDrawing is called, it either returns null and
\* leaves the zone list and the drawing as they are, or appends the one zone
\* it returns, which carries the drawn coordinates, the stored type and the
\* circle's radius, and leaves no mode, no shape and an empty redo stack.
C24_CompleteDrawingEffect ==
    \A name \in Names : \A color \in Colors :
        LET run == completeDrawingRun([name |-> name, color |-> color])
        IN  IF ~DrawingComplete
            THEN /\ run.created = <<>>
                 /\ run.zones = zones
                 /\ run.drawingMode = drawingMode
                 /\ run.drawingShape = drawingShape
                 /\ run.redoStack = redoStack
            ELSE /\ run.created # <<>>
                 /\ run.zones = Append(zones, run.created[1])
                 /\ run.created[1].coordinates = JsRing(drawingShape.coordinates)
                 /\ run.created[1].type =
                        (IF drawingMode = "rectangle" THEN "polygon" ELSE drawingMode)
                 /\ run.created[1].radius =
                        (IF drawingMode = "circle" THEN drawingShape.radius ELSE 0)
                 /\ \A i \in DOMAIN zones : zones[i].id # run.created[1].id
                 /\ run.drawingMode = "null"
                 /\ run.drawingShape = NoShape
                 /\ run.redoStack = <<>>

\* handleConfirmDetails has run completeDrawing for a polygon of three
\* points: the zone is the last of the list, after the stored ones, and
\* nothing is left of the drawing.
C24_WitnessPolygonCompleted ==
    /\ toast = Toast("Zone created", "success")
    /\ zones # <<>>
    /\ zones[Len(zones)].id = 1
    /\ zones[Len(zones)].type = "polygon"
    /\ Len(zones[Len(zones)].coordinates.pts) = 3
    /\ Len(zones) > 1
    /\ drawingMode = "null"
    /\ drawingShape.null
    /\ redoStack = <<>>

====